---- MODULE Spec2Model ----
(***************************************************************************)
(* Copy-pasta checker: bytecode normalisation, chunk similarity, proxy     *)
(* chain resolution and the analysis cache, modelled from the TypeScript   *)
(* sources.                                                                *)
(*                                                                         *)
(* Bytes are the integers 0..255.  A hex string is a sequence of hex       *)
(* digits 0..15; the character 'x' of a "0x" prefix is the value 16.       *)
(* A JavaScript number that may be fractional is a record [n, d] standing  *)
(* for n / d with d > 0.                                                   *)
(***************************************************************************)
EXTENDS Integers, Sequences, FiniteSets, TLC

VARIABLES
    \* ---- normalisation (src/utils/normalization.ts)
    rawBytes,      \* the byte sequence handed to the normaliser
    normPc,        \* "build" | "normalized" | "masked" | "stripped" | "scanned"
    norm1,         \* normalizeBytecode(hex of rawBytes)
    norm2,         \* normalizeBytecode(norm1.normalized)
    maskRes,       \* maskAddresses applied to a buffer holding rawBytes
    nfrags,        \* fragments appended to rawBytes so far
    stripRes,      \* stripMetadata applied to a buffer holding rawBytes
    scanRes,       \* what the delegate-call scans report on rawBytes
    \* ---- AnalysisCache (src/utils/cache.ts)
    cache,         \* the Map, as the sequence of its entries in insertion order
    enabled,       \* this.enabled
    maxEntries,    \* this.maxEntries
    now,           \* the latest reading of Date.now()
    ticks,         \* how often the clock has advanced
    last,          \* the latest cache call: its name, key, return value, evicted key
    \* ---- jaccardSimilarity (src/utils/similarity.ts)
    setA,          \* the first set of chunks
    setB,          \* the second set of chunks
    simPc,         \* "args" | "done"
    similarity,    \* the number jaccardSimilarity returned
    \* ---- resolveImplementation (src/utils/proxy.ts and its later revision)
    chain,         \* what the chain node holds at every address
    module,        \* which revision of the resolver runs
    maxDepth,      \* the argument maxDepth
    resPc,         \* "loop" | "getStorageAt" | "getBytecode" | "done" | "raised"
    currentBytecode,
    currentAddress,
    depth,
    lastProxy,
    failure,       \* the call of the node that was rejected, "none" so far
    hopsFetched,   \* implementations fetched and adopted so far
    detectCalls,   \* calls of detectProxy so far
    storageReads,  \* calls of getStorageAt issued so far
    \* ---- chunkBytecode, preprocessLibrary, compareToLibrary (similarity.ts)
    legends,       \* the library: LegendEntry records in file order
    processedLibrary,  \* what preprocessLibrary made of it
    targetBytecode,    \* the bytecode compared or chunked
    results,       \* what compareToLibrary returned
    chunks,        \* what chunkBytecode returned
    libPc,         \* "load" | "ready" | "compared" | "chunked"
    \* ---- analyzeToken (src/services/analyzer.ts)
    anPc,          \* "idle" | "fetchBytecode" | "resolving"
    request,       \* the arguments tokenAddress and chain of the running call
    rawReply,      \* how the first getBytecode of the running call settled
    cacheEnabled,  \* config.analysis.cacheEnabled
    fetches,       \* calls of fetchBytecode that analyzeToken made so far
    responses,     \* what the calls so far returned, oldest first
    comparisons,   \* calls of compareToLibrary that analyzeToken made so far
    \* ---- several calls of analyzeToken under way at once
    tasks,         \* per call: where it waits, its locals, what it returned
    cacheLog,      \* the calls of analysisCache.get and .set, oldest first
    \* ---- detectEIP1167 on its own
    bytecodeText,  \* the hex text handed to detectEIP1167, without "0x"
    pieces,        \* pieces the text was put together from so far
    detPc,         \* "build" | "detected"
    detected       \* what detectEIP1167 of either revision returned

normVars == <<rawBytes, nfrags, normPc, norm1, norm2, maskRes, stripRes, scanRes>>
cacheVars == <<cache, enabled, maxEntries, now, ticks, last>>
simVars == <<setA, setB, simPc, similarity>>
resVars == <<chain, module, maxDepth, resPc, currentBytecode, currentAddress,
             depth, lastProxy, failure, hopsFetched, detectCalls, storageReads>>
libVars == <<legends, processedLibrary, targetBytecode, results, chunks, libPc>>
anVars == <<anPc, request, rawReply, cacheEnabled, fetches, responses, comparisons>>
coVars == <<tasks, cacheLog>>
detVars == <<bytecodeText, pieces, detPc, detected>>
vars == <<normVars, cacheVars, simVars, resVars, libVars, anVars, coVars, detVars>>
exceptNorm == <<cacheVars, simVars, resVars, libVars, anVars, coVars, detVars>>
exceptCache == <<normVars, simVars, resVars, libVars, anVars, coVars, detVars>>
exceptSim == <<normVars, cacheVars, resVars, libVars, anVars, coVars, detVars>>
exceptRes == <<normVars, cacheVars, simVars, libVars, anVars, coVars, detVars>>
exceptLib == <<normVars, cacheVars, simVars, resVars, anVars, coVars, detVars>>
exceptAnalysis == <<normVars, simVars, libVars, coVars, detVars>>
exceptDetect == <<normVars, cacheVars, simVars, resVars, libVars, anVars, coVars>>
exceptConcurrent == <<normVars, simVars, libVars, now, ticks, last, resPc, currentBytecode,
                      currentAddress, depth, lastProxy, failure, hopsFetched, detectCalls,
                      storageReads, anPc, request, rawReply, fetches, responses, comparisons,
                      detVars>>

(***************************************************************************)
(* Bounds of the model                                                     *)
(***************************************************************************)
MaxFrags == 3            \* fragments an input byte sequence is built from
MaxHits == 1             \* a cached entry is not hit more often than this
MaxTicks == 1            \* the clock advances at most this often
MaxChunkKinds == 4       \* different chunks the compared sets are drawn from
MaxDepthArg == 2         \* largest maxDepth resolveImplementation is called with
MaxLegends == 3          \* entries of the largest library
MaxRequests == 2         \* calls of analyzeToken in one run
MaxTasks == 2            \* calls of analyzeToken under way at once
MaxPieces == 4           \* pieces a text for detectEIP1167 is put together from

(***************************************************************************)
(* Small helpers                                                           *)
(***************************************************************************)
Max(S) == CHOOSE m \in S : \A o \in S : o <= m
Min(S) == CHOOSE m \in S : \A o \in S : m <= o
Rat(n, d) == [n |-> n, d |-> d]
\* the sequence f as an explicit tuple (TLC would re-evaluate a function
\* expression at every application)
Tuple(f) == SubSeq(f, 1, Len(f))
Repeat(b, k) == Tuple([i \in 1..k |-> b])

(***************************************************************************)
(* Strings and buffers as Node implements them                             *)
(***************************************************************************)
HexPrefix == <<0, 16>>                                \* "0x"

\* whether p occurs in s at 0-based index i
occursAt(s, p, i) ==
    i >= 0 /\ i + Len(p) <= Len(s) /\ \A j \in 1..Len(p) : s[i + j] = p[j]

startsWith(s, p) == occursAt(s, p, 0)
endsWith(s, p) == occursAt(s, p, Len(s) - Len(p))

\* String.prototype.lastIndexOf: the greatest 0-based index, -1 when absent
lastIndexOf(s, p) ==
    LET at == {i \in 0..(Len(s) - Len(p)) : occursAt(s, p, i)}
    IN  IF at = {} THEN -1 ELSE Max(at)

\* String.prototype.indexOf: the least 0-based index, -1 when absent
indexOf(s, p) ==
    LET at == {i \in 0..(Len(s) - Len(p)) : occursAt(s, p, i)}
    IN  IF at = {} THEN -1 ELSE Min(at)

\* slice(start, end) of a string or a Buffer, 0-based, end exclusive
slice(s, start, end) ==
    LET e == IF end > Len(s) THEN Len(s) ELSE end
    IN  IF start >= e THEN <<>> ELSE SubSeq(s, start + 1, e)

\* Buffer.prototype.toString('hex'): two lower-case digits per byte
toHex(bytes) ==
    Tuple([i \in 1..(2 * Len(bytes)) |->
        IF i % 2 = 1 THEN bytes[(i + 1) \div 2] \div 16 ELSE bytes[i \div 2] % 16])

\* Buffer.from(hex, 'hex'): whole pairs of hex digits up to the first pair
\* that is not hexadecimal; a trailing single digit is dropped
fromHex(hex) ==
    LET pairs == Len(hex) \div 2
        bad == {k \in 1..pairs : hex[2 * k - 1] > 15 \/ hex[2 * k] > 15}
        n == IF bad = {} THEN pairs ELSE Min(bad) - 1
    IN  Tuple([i \in 1..n |-> hex[2 * i - 1] * 16 + hex[2 * i]])

\* a variant that reads the two bytes in little-endian order
readUInt16LE(b, offset) == b[offset + 1] + b[offset + 2] * 256

\* Buffer.prototype.readUInt16BE(offset)
readUInt16BE(b, offset) == b[offset + 1] * 256 + b[offset + 2]

(***************************************************************************)
(* src/utils/normalization.ts                                              *)
(***************************************************************************)
PUSH20 == \H73
PUSH1 == \H60
PUSH32 == \H7f

CBOR_PREFIXES == << <<10, 2, 6, 4>>, <<10, 2, 6, 5>> >>     \* 'a264', 'a265'
CBOR_SUFFIX == <<0, 0, 3, 3>>                               \* '0033'

stripHexPrefix(hex) ==
    IF startsWith(hex, HexPrefix) THEN SubSeq(hex, 3, Len(hex)) ELSE hex

\* The fallback of stripMetadata: the first prefix of CBOR_PREFIXES, in the
\* order of the list, that occurs in the hex text of a buffer ending with
\* CBOR_SUFFIX decides; bytesRemoved is (hexStr.length - lastIndex) / 2.
stripFallback(bytecode) ==
    LET hexStr == toHex(bytecode)
        hits == {p \in 1..Len(CBOR_PREFIXES) :
                    /\ lastIndexOf(hexStr, CBOR_PREFIXES[p]) # -1
                    /\ endsWith(hexStr, CBOR_SUFFIX)}
    IN  IF hits = {}
        THEN [stripped |-> bytecode, bytesRemoved |-> Rat(0, 1)]
        ELSE LET lastIndex == lastIndexOf(hexStr, CBOR_PREFIXES[Min(hits)])
             IN  [stripped |-> fromHex(slice(hexStr, 0, lastIndex)),
                  bytesRemoved |-> Rat(Len(hexStr) - lastIndex, 2)]

stripMetadata(bytecode) ==
    IF Len(bytecode) < 2
    THEN [stripped |-> bytecode, bytesRemoved |-> Rat(0, 1)]
    ELSE LET cborLength == readUInt16BE(bytecode, Len(bytecode) - 2)
             metadataStart == Len(bytecode) - 2 - cborLength
         IN  IF /\ cborLength > 0
                /\ cborLength < 200
                /\ cborLength + 2 <= Len(bytecode)
                /\ \E p \in 1..Len(CBOR_PREFIXES) :
                      startsWith(toHex(slice(bytecode, metadataStart, metadataStart + 2)),
                                 CBOR_PREFIXES[p])
             THEN [stripped |-> slice(bytecode, 0, metadataStart),
                   bytesRemoved |-> Rat(cborLength + 2, 1)]
             ELSE stripFallback(bytecode)

\* Buffers live in a heap (a sequence of byte sequences, a reference is an
\* index) so that writing through an alias is visible.
\* Buffer.from(buffer): a fresh buffer holding a copy
BufferFrom(heap, src) == [heap |-> Append(heap, heap[src]), ref |-> Len(heap) + 1]

\* The mutant of zeroOperand: the window starts one byte early (j from 0)
zeroOperandEarly(buffer, i) ==
    Tuple([p \in 1..Len(buffer) |-> IF p >= i + 1 /\ p <= i + 20 THEN 0 ELSE buffer[p]])

\* for (let j = 1; j <= 20; j++) masked[i + j] = 0x00   (i is 0-based)
zeroOperand(buffer, i) ==
    Tuple([p \in 1..Len(buffer) |-> IF p >= i + 2 /\ p <= i + 21 THEN 0 ELSE buffer[p]])

\* a variant that takes every PUSH20 for complete
fullOperandUnchecked(i, length) == TRUE

\* i + 20 < masked.length: the 20 operand bytes of the PUSH20 at i exist
fullOperand(i, length) == i + 20 < length

\* The while loop of maskAddresses over buffer heap[masked], from index i
RECURSIVE maskLoop(_, _, _, _)
maskLoop(heap, masked, i, addressesMasked) ==
    IF i >= Len(heap[masked])
    THEN [heap |-> heap, masked |-> masked, addressesMasked |-> addressesMasked]
    ELSE LET opcode == heap[masked][i + 1]
         IN  IF opcode = PUSH20 /\ fullOperand(i, Len(heap[masked]))
             THEN maskLoop([heap EXCEPT ![masked] = zeroOperand(@, i)],
                           masked, i + 21, addressesMasked + 1)
             ELSE IF opcode >= PUSH1 /\ opcode <= PUSH32
                  THEN maskLoop(heap, masked, i + 1 + (opcode - PUSH1 + 1), addressesMasked)
                  ELSE maskLoop(heap, masked, i + 1, addressesMasked)

maskAddresses(heap, bytecode) ==
    LET copy == BufferFrom(heap, bytecode)
    IN  maskLoop(copy.heap, copy.ref, 0, 0)

EmptyNormalization ==
    [normalized |-> <<>>, original_size |-> 0, normalized_size |-> 0,
     metadata_stripped |-> Rat(0, 1), addresses_masked |-> 0]

normalizeBytecode(rawHex) ==
    IF rawHex = <<>> \/ rawHex = HexPrefix
    THEN EmptyNormalization
    ELSE LET originalBuffer == fromHex(stripHexPrefix(rawHex))
             s == stripMetadata(originalBuffer)
             m == maskAddresses(<<s.stripped>>, 1)
         IN  [normalized |-> toHex(m.heap[m.masked]),
              original_size |-> Len(originalBuffer),
              normalized_size |-> Len(m.heap[m.masked]),
              metadata_stripped |-> s.bytesRemoved,
              addresses_masked |-> m.addressesMasked]

(***************************************************************************)
(* src/utils/cache.ts: class AnalysisCache                                 *)
(*                                                                         *)
(* keccak256 is taken to be free of collisions: the key of a normalized    *)
(* bytecode is the byte sequence it encodes, with or without "0x".         *)
(* Date.now() never goes back; every call of it is a reading of its own.   *)
(***************************************************************************)
HIT_WEIGHT == 1000000
Infinity == 2147483647
NoKey == <<>>

generateKey(normalizedBytecode) == fromHex(stripHexPrefix(normalizedBytecode))

\* Map.prototype.has / the position of a key in the Map's order (0: absent)
mapIndex(map, key) ==
    LET at == {i \in 1..Len(map) : map[i].key = key}
    IN  IF at = {} THEN 0 ELSE Min(at)

mapHas(map, key) == mapIndex(map, key) # 0

\* Map.prototype.set: an existing key keeps its place, a new one goes last
mapSet(map, key, value) ==
    LET e == [key |-> key, result |-> value.result,
              createdAt |-> value.createdAt, hitCount |-> value.hitCount]
    IN  IF mapHas(map, key)
        THEN [map EXCEPT ![mapIndex(map, key)] = e]
        ELSE Append(map, e)

\* Map.prototype.delete
mapDelete(map, key) ==
    LET i == mapIndex(map, key)
    IN  IF i = 0 THEN map
        ELSE SubSeq(map, 1, i - 1) \o SubSeq(map, i + 1, Len(map))

\* The mutant of score: the hit counter is left out
scoreByAgeOnly(entry, reading) == 0 - (reading - entry.createdAt)

\* score of one entry, with the reading of Date.now() taken for it
score(entry, reading) == entry.hitCount * HIT_WEIGHT - (reading - entry.createdAt)

\* if (score < worstScore)
worse(s, worstScore) == s < worstScore

\* the for loop of evict from the i-th entry on; readings[i] is the value
\* of Date.now() in the i-th round
RECURSIVE evictLoop(_, _, _, _, _)
evictLoop(map, readings, i, worstKey, worstScore) ==
    IF i > Len(map)
    THEN worstKey
    ELSE LET s == score(map[i], readings[i])
         IN  IF worse(s, worstScore)
             THEN evictLoop(map, readings, i + 1, map[i].key, s)
             ELSE evictLoop(map, readings, i + 1, worstKey, worstScore)

\* the key evict() deletes (NoKey: none)
evictKey(map, readings) == evictLoop(map, readings, 1, NoKey, Infinity)

evict(map, readings) ==
    LET worstKey == evictKey(map, readings)
    IN  IF worstKey # NoKey THEN mapDelete(map, worstKey) ELSE map

\* The mutant of mustEvict: eviction only once the capacity is exceeded
mustEvictLate(map, capacity) == Len(map) > capacity

\* if (this.cache.size >= this.maxEntries)
mustEvict(map, capacity) == Len(map) >= capacity

\* The mutant of bypass: the toggle is ignored
bypassNever(on) == FALSE

\* if (!this.enabled) return ...
bypass(on) == ~on

\* a variant of getStats that adds 1 for every entry
getStatsCountingEntries(map) == [entries |-> Len(map), totalHits |-> Len(map)]

\* for (const entry of this.cache.values()) totalHits += entry.hitCount
RECURSIVE totalHitsLoop(_, _, _)
totalHitsLoop(map, i, totalHits) ==
    IF i > Len(map) THEN totalHits
    ELSE totalHitsLoop(map, i + 1, totalHits + map[i].hitCount)

\* getStats(), its fields enabled and maxEntries left to the variables
getStats(map) == [entries |-> Len(map), totalHits |-> totalHitsLoop(map, 1, 0)]

(***************************************************************************)
(* The cache's callers                                                     *)
(***************************************************************************)
\* normalized bytecodes as hex text, one of them with "0x"
CacheInputs == { <<10, 10>>, HexPrefix \o <<11, 11>>, <<12, 12>> }
Results == {"r1", "r2"}
Capacities == {1, 2}                  \* new AnalysisCache(maxEntries)
ClockSteps == {1, HIT_WEIGHT}

\* the readings of n successive calls of Date.now(), the clock advancing by
\* at most one millisecond between two of them
Readings(n) ==
    { r \in [1..n -> now..(now + n)] :
        /\ r[1] \in {now, now + 1}
        /\ \A i \in 2..n : r[i] \in {r[i - 1], r[i - 1] + 1}
        /\ ticks + (r[n] - now) <= MaxTicks }

CacheInit ==
    /\ cache = <<>>
    /\ enabled = TRUE
    /\ maxEntries \in Capacities
    /\ now = 0
    /\ ticks = 0
    /\ last = [op |-> "new", key |-> NoKey, ret |-> "void", evicted |-> NoKey]

\* time passes between two calls
Advance(d) ==
    /\ ticks < MaxTicks
    /\ now' = now + d
    /\ ticks' = ticks + 1
    /\ UNCHANGED <<cache, enabled, maxEntries, last>>
    /\ UNCHANGED exceptCache

\* get(normalizedBytecode)
Get(nb) ==
    LET key == generateKey(nb)
        i == mapIndex(cache, key)
    IN  /\ UNCHANGED exceptCache
        /\ IF bypass(enabled)
           THEN /\ last' = [op |-> "get", key |-> key, ret |-> "null", evicted |-> NoKey]
                /\ UNCHANGED <<cache, enabled, maxEntries, now, ticks>>
           ELSE IF i # 0
                THEN /\ cache[i].hitCount < MaxHits
                     /\ cache' = [cache EXCEPT ![i].hitCount = @ + 1]
                     /\ last' = [op |-> "get", key |-> key, ret |-> cache[i].result,
                                 evicted |-> NoKey]
                     /\ UNCHANGED <<enabled, maxEntries, now, ticks>>
                ELSE /\ last' = [op |-> "get", key |-> key, ret |-> "null", evicted |-> NoKey]
                     /\ UNCHANGED <<cache, enabled, maxEntries, now, ticks>>

\* set(normalizedBytecode, result)
Set(nb, result) ==
    LET key == generateKey(nb)
    IN  /\ UNCHANGED exceptCache
        /\ IF bypass(enabled)
           THEN /\ last' = [op |-> "set", key |-> key, ret |-> "void", evicted |-> NoKey]
                /\ UNCHANGED <<cache, enabled, maxEntries, now, ticks>>
           ELSE LET full == mustEvict(cache, maxEntries)
                    n == IF full THEN Len(cache) + 1 ELSE 1
                IN  \E r \in Readings(n) :
                       LET kept == IF full THEN evict(cache, r) ELSE cache
                           gone == IF full THEN evictKey(cache, r) ELSE NoKey
                       IN  /\ cache' = mapSet(kept, key,
                                         [result |-> result, createdAt |-> r[n], hitCount |-> 0])
                           /\ now' = r[n]
                           /\ ticks' = ticks + (r[n] - now)
                           /\ last' = [op |-> "set", key |-> key, ret |-> "void",
                                       evicted |-> gone]
                           /\ UNCHANGED <<enabled, maxEntries>>

\* has(normalizedBytecode)
Has(nb) ==
    LET key == generateKey(nb)
    IN  /\ last' = [op |-> "has", key |-> NoKey,
                    ret |-> IF mapHas(cache, key) THEN "true" ELSE "false",
                    evicted |-> NoKey]
        /\ UNCHANGED <<cache, enabled, maxEntries, now, ticks>>
        /\ UNCHANGED exceptCache

\* setEnabled(enabled)
SetEnabled(on) ==
    /\ enabled' = on
    /\ last' = [op |-> "setEnabled", key |-> NoKey, ret |-> "void", evicted |-> NoKey]
    /\ UNCHANGED <<cache, maxEntries, now, ticks>>
    /\ UNCHANGED exceptCache

\* clear()
Clear ==
    /\ cache' = <<>>
    /\ last' = [op |-> "clear", key |-> NoKey, ret |-> "void", evicted |-> NoKey]
    /\ UNCHANGED <<enabled, maxEntries, now, ticks>>
    /\ UNCHANGED exceptCache

CacheNext ==
    \/ \E d \in ClockSteps : Advance(d)
    \/ \E nb \in CacheInputs : Get(nb)
    \/ \E nb \in CacheInputs, result \in Results : Set(nb, result)
    \/ \E nb \in CacheInputs : Has(nb)
    \/ \E on \in BOOLEAN : SetEnabled(on)
    \/ Clear

\* a cache nobody calls
CacheIdle ==
    /\ cache = <<>>
    /\ enabled = TRUE
    /\ maxEntries = 1
    /\ now = 0
    /\ ticks = 0
    /\ last = [op |-> "new", key |-> NoKey, ret |-> "void", evicted |-> NoKey]

(***************************************************************************)
(* src/utils/similarity.ts: jaccardSimilarity                              *)
(***************************************************************************)
\* The mutant of unionSize: the chunks in both sets are counted twice
unionSizeCountingTwice(sizeA, sizeB, intersection) == sizeA + sizeB

\* const union = setA.size + setB.size - intersection
unionSize(sizeA, sizeB, intersection) == sizeA + sizeB - intersection

jaccardSimilarity(a, b) ==
    IF Cardinality(a) = 0 /\ Cardinality(b) = 0 THEN Rat(100, 1)
    ELSE IF Cardinality(a) = 0 \/ Cardinality(b) = 0 THEN Rat(0, 1)
    ELSE LET intersection == Cardinality({chunk \in a : chunk \in b})
             union == unionSize(Cardinality(a), Cardinality(b), intersection)
         IN  Rat(intersection * 100, union)

\* chunks of 8 hex digits
ChunkUniverse == {Repeat(c, 8) : c \in 1..MaxChunkKinds}

SimInit ==
    /\ setA \in SUBSET ChunkUniverse
    /\ setB \in SUBSET ChunkUniverse
    /\ simPc = "args"
    /\ similarity = Rat(0, 1)

Jaccard ==
    /\ simPc = "args"
    /\ similarity' = jaccardSimilarity(setA, setB)
    /\ simPc' = "done"
    /\ UNCHANGED <<setA, setB>>
    /\ UNCHANGED exceptSim

SimNext == Jaccard

\* nobody compares
SimIdle ==
    /\ setA = {}
    /\ setB = {}
    /\ simPc = "args"
    /\ similarity = Rat(0, 1)

(***************************************************************************)
(* The proxy resolver.  src/utils/cache.ts holds, behind the cache class,  *)
(* the later revision of src/utils/proxy.ts; both are modelled, the        *)
(* variable module says which one runs.  Upper-case hex digits 'A'..'F'    *)
(* are the values 26..31.                                                  *)
(***************************************************************************)
null == <<17>>
undefined == <<18>>
thrown == <<19>>              \* an exception on its way up, a rejected promise

toLowerCase(str) ==
    Tuple([i \in 1..Len(str) |->
        IF str[i] >= 26 /\ str[i] <= 31 THEN str[i] - 16 ELSE str[i]])

\* String.prototype.replace('0x', ''): the first occurrence goes
replace0x(str) ==
    LET i == indexOf(str, HexPrefix)
    IN  IF i = -1 THEN str ELSE slice(str, 0, i) \o slice(str, i + 2, Len(str))

isAddress(address) ==
    /\ Len(address) = 42
    /\ startsWith(address, HexPrefix)
    /\ \A i \in 3..42 : address[i] <= 15 \/ (address[i] >= 26 /\ address[i] <= 31)

\* viem's getAddress: the address in its checksum spelling, an exception for
\* text that is no address.  The letters the checksum writes in upper case
\* are chosen by a hash of the address; here they are those at odd places.
getAddress(address) ==
    IF ~isAddress(address) THEN thrown
    ELSE LET lower == toLowerCase(address)
         IN  Tuple([i \in 1..42 |->
                 IF i > 2 /\ lower[i] >= 10 /\ i % 2 = 1 THEN lower[i] + 16 ELSE lower[i]])

ZERO_ADDR == HexPrefix \o Repeat(0, 40)
ZERO_SLOT == HexPrefix \o Repeat(0, 64)
EIP1167_PREFIX == <<3, 6, 3, 13, 3, 13, 3, 7, 3, 13, 3, 13, 3, 13, 3, 6, 3, 13, 7, 3>>
EIP1167_SUFFIX ==
    <<5, 10, 15, 4, 3, 13, 8, 2, 8, 0, 3, 14, 9, 0, 3, 13, 9, 1, 6, 0, 2, 11, 5, 7,
      15, 13, 5, 11, 15, 3>>
EIP1167_FULL_LENGTH == 90
ALT_CLONE_PATTERN ==
    <<3, 6, 3, 13, 3, 13, 3, 7, 3, 13, 3, 13, 3, 13, 3, 13, 6, 0, 3, 6, 8, 0, 3, 8,
      0, 3, 8, 0, 9, 1, 3, 6, 3, 9, 3, 6, 0, 1, 3, 13, 7, 3>>
CLONE_PATTERNS == <<EIP1167_PREFIX, ALT_CLONE_PATTERN>>
PROXY_PREFIXES == << <<3, 6, 3, 13, 3, 13, 3, 7>>, <<3, 6, 6, 0>>, <<3, 6, 6, 0, 0, 0>> >>
DELEGATECALL == \Hf4

extractAddress(hex, start) ==
    IF Len(hex) < start + 40 THEN null
    ELSE getAddress(HexPrefix \o slice(hex, start, start + 40))

\* whether bytecode has the standard clone prologue, room for an address and
\* then the epilogue or nothing but the 45 bytes of a clone
standardClone(code) ==
    /\ startsWith(code, EIP1167_PREFIX)
    /\ Len(code) >= Len(EIP1167_PREFIX) + 40
    /\ \/ startsWith(slice(code, Len(EIP1167_PREFIX) + 40, Len(code)), EIP1167_SUFFIX)
       \/ Len(code) = EIP1167_FULL_LENGTH

\* detectEIP1167 of the later revision
detectEIP1167(bytecode) ==
    LET code == replace0x(toLowerCase(bytecode))
        idx == indexOf(code, ALT_CLONE_PATTERN)
    IN  IF standardClone(code) THEN extractAddress(code, Len(EIP1167_PREFIX))
        ELSE IF idx # -1 THEN extractAddress(code, idx + Len(ALT_CLONE_PATTERN))
        ELSE null

\* detectEIP1167 of src/utils/proxy.ts
detectEIP1167_proxy_ts(bytecode) ==
    LET code == replace0x(toLowerCase(bytecode))
        addressStart == Len(EIP1167_PREFIX)
        after(k) == indexOf(code, CLONE_PATTERNS[k]) + Len(CLONE_PATTERNS[k])
        found(k) == getAddress(HexPrefix \o slice(code, after(k), after(k) + 40))
        usable == {k \in 1..Len(CLONE_PATTERNS) :
                      /\ indexOf(code, CLONE_PATTERNS[k]) # -1
                      /\ Len(code) >= after(k) + 40
                      /\ found(k) # thrown}
    IN  IF standardClone(code)
        THEN LET address == getAddress(HexPrefix \o slice(code, addressStart, addressStart + 40))
             IN  IF address = thrown THEN null ELSE address
        ELSE IF usable = {} THEN null ELSE found(Min(usable))

\* String.prototype.slice(-40)
last40(str) == slice(str, IF Len(str) > 40 THEN Len(str) - 40 ELSE 0, Len(str))

\* detectEIP1967 of the later revision, from the settling of getStorageAt on
detectEIP1967(slot) ==
    IF slot = thrown THEN thrown
    ELSE IF slot = undefined \/ slot = <<>> \/ slot = ZERO_SLOT THEN null
    ELSE IF HexPrefix \o last40(slot) = ZERO_ADDR THEN null
    ELSE getAddress(HexPrefix \o last40(slot))

\* detectEIP1967 of src/utils/proxy.ts: its catch turns every exception
\* into null
detectEIP1967_proxy_ts(implementationSlot) ==
    IF implementationSlot = thrown THEN null
    ELSE IF \/ implementationSlot = undefined
            \/ implementationSlot = <<>>
            \/ implementationSlot = ZERO_SLOT THEN null
    ELSE IF HexPrefix \o last40(implementationSlot) = ZERO_ADDR THEN null
    ELSE LET address == getAddress(HexPrefix \o last40(implementationSlot))
         IN  IF address = thrown THEN null ELSE address

\* the opcode walk of hasProxyCharacteristics over buf from index i
RECURSIVE walkFindsDelegateCall(_, _)
walkFindsDelegateCall(buf, i) ==
    IF i >= Len(buf) THEN FALSE
    ELSE LET op == buf[i + 1]
         IN  IF op = DELEGATECALL THEN TRUE
             ELSE IF op >= PUSH1 /\ op <= PUSH32
                  THEN walkFindsDelegateCall(buf, i + 1 + (op - PUSH1 + 1))
                  ELSE walkFindsDelegateCall(buf, i + 1)

\* hasProxyCharacteristics of the later revision
hasProxyCharacteristics(bytecode) ==
    LET code == replace0x(toLowerCase(bytecode))
    IN  \/ Len(code) < 400
        \/ \E p \in 1..Len(PROXY_PREFIXES) : startsWith(code, PROXY_PREFIXES[p])
        \/ walkFindsDelegateCall(fromHex(slice(code, 0, 200)), 0)

\* hasProxyCharacteristics of src/utils/proxy.ts
hasProxyCharacteristics_proxy_ts(bytecode) ==
    LET code == replace0x(toLowerCase(bytecode))
        firstDelegateCall == indexOf(code, <<15, 4>>)
    IN  \/ Len(code) < 400
        \/ (firstDelegateCall # -1 /\ firstDelegateCall < 200)
        \/ \E p \in 1..Len(PROXY_PREFIXES) : startsWith(code, PROXY_PREFIXES[p])

\* fetchBytecode of the later revision, from the settling of getBytecode on
fetchBytecode(bytecode) ==
    IF bytecode = thrown THEN thrown
    ELSE IF bytecode = undefined \/ bytecode = <<>> THEN null
    ELSE bytecode

\* fetchBytecode of src/utils/proxy.ts: its catch returns null
fetchBytecode_proxy_ts(bytecode) ==
    IF bytecode = thrown \/ bytecode = undefined \/ bytecode = <<>> THEN null
    ELSE bytecode

\* The mutant of resolveCatches: no try/catch in either revision
resolveCatchesNothing(m) == FALSE

\* whether resolveImplementation has try/catch around its two awaits
resolveCatches(m) == m = "cache.ts"

\* The mutant of withinDepth: one round more
withinDepthInclusive(d, max) == d <= max

\* while (depth < maxDepth)
withinDepth(d, max) == d < max

NoDetection == [is_proxy |-> FALSE, proxy_type |-> "none", implementation_address |-> null]
Detection(type, impl) ==
    [is_proxy |-> TRUE, proxy_type |-> type, implementation_address |-> impl]

\* what resolveImplementation returns
resolution ==
    [bytecode |-> currentBytecode,
     is_proxy |-> lastProxy.is_proxy,
     proxy_type |-> lastProxy.proxy_type,
     implementation_address |-> lastProxy.implementation_address,
     resolution_depth |-> depth]

(***************************************************************************)
(* The chain node: what it holds at the three addresses of the model       *)
(***************************************************************************)
Addresses == {Repeat(10, 40), Repeat(11, 40), Repeat(12, 40)}
StartAddress == Repeat(10, 40)
NoAddress == Repeat(0, 40)

\* no code | a clone of `to` | a short forwarding shim, its implementation
\* slot holding `to` in its low 20 bytes (slotHigh: only a high byte set) |
\* more than 200 bytes of logic
Contracts ==
    {[kind |-> "none", to |-> NoAddress], [kind |-> "logic", to |-> NoAddress],
     [kind |-> "slot", to |-> NoAddress], [kind |-> "slotHigh", to |-> NoAddress]}
    \cup {[kind |-> k, to |-> a] : k \in {"clone", "slot"}, a \in Addresses}

\* seven times PUSH32 with a zero operand: 231 bytes
LogicCode == HexPrefix \o Tuple([i \in 1..462 |-> IF i % 66 = 1 THEN 7 ELSE IF i % 66 = 2 THEN 15 ELSE 0])
ShimCode == HexPrefix \o <<3, 6, 6, 0, 0, 0, 8, 0, 3, 7, 15, 4>>
CloneCode(to) == HexPrefix \o EIP1167_PREFIX \o to \o EIP1167_SUFFIX

codeAt(node, address) ==
    LET contract == node[toLowerCase(slice(address, 2, 42))]
    IN  IF contract.kind = "logic" THEN LogicCode
        ELSE IF contract.kind = "clone" THEN CloneCode(contract.to)
        ELSE IF contract.kind = "none" THEN HexPrefix
        ELSE ShimCode

\* how a call of getBytecode may settle
getBytecode(node, address) ==
    IF codeAt(node, address) = HexPrefix
    THEN {thrown, undefined, HexPrefix}
    ELSE {thrown, codeAt(node, address)}

\* how a call of getStorageAt for the implementation slot may settle
getStorageAt(node, address) ==
    LET contract == node[toLowerCase(slice(address, 2, 42))]
    IN  {thrown,
         IF contract.kind = "slot" THEN HexPrefix \o Repeat(0, 24) \o contract.to
         ELSE IF contract.kind = "slotHigh" THEN HexPrefix \o <<1>> \o Repeat(0, 63)
         ELSE ZERO_SLOT}

(***************************************************************************)
(* resolveImplementation, one action per stretch between two awaits        *)
(***************************************************************************)
ResInit ==
    /\ chain \in [Addresses -> Contracts]
    /\ chain[StartAddress].kind # "none"
    /\ module \in {"cache.ts", "proxy.ts"}
    /\ maxDepth \in 0..MaxDepthArg
    /\ resPc = "loop"
    /\ currentBytecode = codeAt(chain, HexPrefix \o StartAddress)
    /\ currentAddress = HexPrefix \o StartAddress
    /\ depth = 0
    /\ lastProxy = NoDetection
    /\ failure = "none"
    /\ hopsFetched = 0
    /\ detectCalls = 0
    /\ storageReads = 0

\* detectEIP1167 and hasProxyCharacteristics of the two revisions on the
\* codes the node holds
Programs == {LogicCode, ShimCode} \cup {CloneCode(a) : a \in Addresses}
eip1167Impls ==
    [m \in {"cache.ts", "proxy.ts"} |->
        [c \in Programs |-> IF m = "cache.ts" THEN detectEIP1167(c)
                            ELSE detectEIP1167_proxy_ts(c)]]
heuristics ==
    [m \in {"cache.ts", "proxy.ts"} |->
        [c \in Programs |-> IF m = "cache.ts" THEN hasProxyCharacteristics(c)
                            ELSE hasProxyCharacteristics_proxy_ts(c)]]

\* break: the loop is left
break ==
    /\ resPc' = "done"
    /\ UNCHANGED <<currentBytecode, currentAddress, depth, lastProxy, hopsFetched>>

\* an exception reaches resolveImplementation
unwind ==
    /\ resPc' = IF resolveCatches(module) THEN "done" ELSE "raised"
    /\ UNCHANGED <<currentBytecode, currentAddress, depth, lastProxy, hopsFetched>>

\* a variant of follow that forgets to count the hop
followUncounted(detection) ==
    /\ lastProxy' = detection
    /\ depth' = depth
    /\ resPc' = "getBytecode"
    /\ UNCHANGED <<currentBytecode, currentAddress, hopsFetched>>

\* a detection with an implementation address: on to the fetch of its code
follow(detection) ==
    /\ lastProxy' = detection
    /\ depth' = depth + 1
    /\ resPc' = "getBytecode"
    /\ UNCHANGED <<currentBytecode, currentAddress, hopsFetched>>

\* a variant of detectProxy that reads the slot of every contract that is
\* no clone
checksEIP1967Always(heuristic) == TRUE

\* if (hasProxyCharacteristics(bytecode)): detectEIP1967 is called
checksEIP1967(heuristic) == heuristic

\* loop head and detectProxy up to its await
ResolveLoop ==
    /\ resPc = "loop"
    /\ IF ~withinDepth(depth, maxDepth)
       THEN /\ break
            /\ UNCHANGED <<detectCalls, storageReads>>
       ELSE LET eip1167Impl == eip1167Impls[module][currentBytecode]
                heuristic == heuristics[module][currentBytecode]
            IN  /\ detectCalls' = detectCalls + 1
                /\ IF eip1167Impl = thrown
                   THEN unwind /\ UNCHANGED storageReads
                   ELSE IF eip1167Impl # null
                   THEN follow(Detection("eip1167", eip1167Impl)) /\ UNCHANGED storageReads
                   ELSE IF checksEIP1967(heuristic)
                        THEN /\ resPc' = "getStorageAt"
                             /\ storageReads' = storageReads + 1
                             /\ UNCHANGED <<currentBytecode, currentAddress, depth,
                                            lastProxy, hopsFetched>>
                        ELSE break /\ UNCHANGED storageReads
    /\ UNCHANGED <<chain, module, maxDepth, failure>>
    /\ UNCHANGED exceptRes

\* getStorageAt settles: the rest of detectEIP1967 and of detectProxy
StorageSettles(slot) ==
    /\ resPc = "getStorageAt"
    /\ slot \in getStorageAt(chain, currentAddress)
    /\ failure' = IF slot = thrown THEN "getStorageAt" ELSE failure
    /\ LET eip1967Impl == IF module = "cache.ts"
                          THEN detectEIP1967(slot)
                          ELSE detectEIP1967_proxy_ts(slot)
       IN  IF eip1967Impl = thrown THEN unwind
           ELSE IF eip1967Impl # null THEN follow(Detection("eip1967", eip1967Impl))
           ELSE break
    /\ UNCHANGED <<chain, module, maxDepth, detectCalls, storageReads>>
    /\ UNCHANGED exceptRes

\* getBytecode settles: the rest of fetchBytecode and of the loop body
BytecodeSettles(bytecode) ==
    /\ resPc = "getBytecode"
    /\ bytecode \in getBytecode(chain, lastProxy.implementation_address)
    /\ failure' = IF bytecode = thrown THEN "getBytecode" ELSE failure
    /\ LET implBytecode == IF module = "cache.ts"
                           THEN fetchBytecode(bytecode)
                           ELSE fetchBytecode_proxy_ts(bytecode)
       IN  IF implBytecode = thrown THEN unwind
           ELSE IF implBytecode = null \/ implBytecode = HexPrefix THEN break
           ELSE /\ currentBytecode' = implBytecode
                /\ currentAddress' = lastProxy.implementation_address
                /\ hopsFetched' = hopsFetched + 1
                /\ resPc' = "loop"
                /\ UNCHANGED <<depth, lastProxy>>
    /\ UNCHANGED <<chain, module, maxDepth, detectCalls, storageReads>>
    /\ UNCHANGED exceptRes

SlotWords == UNION {getStorageAt([a \in Addresses |-> c], HexPrefix \o StartAddress) : c \in Contracts}
Codes == UNION {getBytecode([a \in Addresses |-> c], HexPrefix \o StartAddress) : c \in Contracts}

ResNext ==
    \/ ResolveLoop
    \/ \E slot \in SlotWords : StorageSettles(slot)
    \/ \E bytecode \in Codes : BytecodeSettles(bytecode)

\* nobody resolves
ResIdle ==
    /\ chain = [a \in Addresses |-> [kind |-> "none", to |-> NoAddress]]
    /\ module = "cache.ts"
    /\ maxDepth = 0
    /\ resPc = "done"
    /\ currentBytecode = HexPrefix
    /\ currentAddress = HexPrefix \o StartAddress
    /\ depth = 0
    /\ lastProxy = NoDetection
    /\ failure = "none"
    /\ hopsFetched = 0
    /\ detectCalls = 0
    /\ storageReads = 0

(***************************************************************************)
(* src/utils/normalization.ts: containsDelegateCall                        *)
(***************************************************************************)
\* the while loop of containsDelegateCall over buf from index i
RECURSIVE containsLoop(_, _)
containsLoop(buf, i) ==
    IF i >= Len(buf) THEN FALSE
    ELSE LET op == buf[i + 1]
         IN  IF op = \Hf4 THEN TRUE
             ELSE IF op >= \H60 /\ op <= \H7f
                  THEN containsLoop(buf, i + 1 + (op - \H60 + 1))
                  ELSE containsLoop(buf, i + 1)

containsDelegateCall(bytecode) ==
    containsLoop(fromHex(toLowerCase(stripHexPrefix(bytecode))), 0)

(***************************************************************************)
(* The normaliser's inputs: byte sequences put together from fragments     *)
(* that make instruction operands, addresses, delegate calls and metadata  *)
(* trailers occur.                                                         *)
(***************************************************************************)
Fragments ==
    { <<0>>, <<PUSH1>>, <<PUSH20>>, Repeat(\Haa, 20),
      <<\Ha2, \H64>>, <<\Ha2, \H65>>, <<0, 3>>, <<0, \H33>>,
      <<\Ha2, \H64, 0, 2>>,
      <<\H0a, \H26, \H40>>,
      <<DELEGATECALL>> }

\* a contract body behind the input that makes it longer than 200 bytes:
\* seven PUSH32 of zero
Body == LogicCode

NoMask == [heap |-> <<>>, masked |-> 0, addressesMasked |-> 0]
NoStrip == [stripped |-> <<>>, bytesRemoved |-> Rat(0, 1)]
NoScan == [containsDelegateCall |-> FALSE,
           hasProxyCharacteristics |-> FALSE,
           hasProxyCharacteristics_proxy_ts |-> FALSE]

NormInit ==
    /\ rawBytes = <<>>
    /\ nfrags = 0
    /\ normPc = "build"
    /\ norm1 = EmptyNormalization
    /\ norm2 = EmptyNormalization
    /\ maskRes = NoMask
    /\ stripRes = NoStrip
    /\ scanRes = NoScan

\* the caller puts the input together
AppendFragment(f) ==
    /\ normPc = "build"
    /\ nfrags < MaxFrags
    /\ rawBytes' = rawBytes \o f
    /\ nfrags' = nfrags + 1
    /\ UNCHANGED <<normPc, norm1, norm2, maskRes, stripRes, scanRes>>
    /\ UNCHANGED exceptNorm

\* normalizeBytecode on the hex text of the input (with or without "0x"),
\* then once more on the normalized text it returned
Normalize(prefixed) ==
    /\ normPc = "build"
    /\ LET rawHex == IF prefixed THEN HexPrefix \o toHex(rawBytes) ELSE toHex(rawBytes)
           first == normalizeBytecode(rawHex)
       IN  /\ norm1' = first
           /\ norm2' = normalizeBytecode(first.normalized)
    /\ normPc' = "normalized"
    /\ UNCHANGED <<rawBytes, nfrags, maskRes, stripRes, scanRes>>
    /\ UNCHANGED exceptNorm

\* maskAddresses on a buffer holding the input
Mask ==
    /\ normPc = "build"
    /\ maskRes' = maskAddresses(<<rawBytes>>, 1)
    /\ normPc' = "masked"
    /\ UNCHANGED <<rawBytes, nfrags, norm1, norm2, stripRes, scanRes>>
    /\ UNCHANGED exceptNorm

\* stripMetadata on a buffer holding the input
Strip ==
    /\ normPc = "build"
    /\ stripRes' = stripMetadata(rawBytes)
    /\ normPc' = "stripped"
    /\ UNCHANGED <<rawBytes, nfrags, norm1, norm2, maskRes, scanRes>>
    /\ UNCHANGED exceptNorm

\* containsDelegateCall on the hex text of the input, and both revisions
\* of hasProxyCharacteristics on the input with a contract body behind it
Scan(prefixed) ==
    /\ normPc = "build"
    /\ LET lead == IF prefixed THEN HexPrefix ELSE <<>>
           contract == lead \o toHex(rawBytes) \o SubSeq(Body, 3, Len(Body))
       IN  scanRes' =
               [containsDelegateCall |-> containsDelegateCall(lead \o toHex(rawBytes)),
                hasProxyCharacteristics |-> hasProxyCharacteristics(contract),
                hasProxyCharacteristics_proxy_ts |->
                    hasProxyCharacteristics_proxy_ts(contract)]
    /\ normPc' = "scanned"
    /\ UNCHANGED <<rawBytes, nfrags, norm1, norm2, maskRes, stripRes>>
    /\ UNCHANGED exceptNorm

NormNext ==
    \/ \E f \in Fragments : AppendFragment(f)
    \/ \E prefixed \in BOOLEAN : Normalize(prefixed)
    \/ Mask
    \/ Strip
    \/ \E prefixed \in BOOLEAN : Scan(prefixed)

\* nobody normalises
NormIdle == NormInit

(***************************************************************************)
(* src/utils/similarity.ts: chunkBytecode, preprocessLibrary and           *)
(* compareToLibrary.  Both chunk the text normalizeBytecode(...).normalized *)
(* (normalizeBytecode returns a record).  A score is kept as an exact      *)
(* fraction; Math.round(x * 100) / 100 is a number of hundredths.          *)
(***************************************************************************)
CHUNK_SIZE_HEX == 8

\* a variant whose windows do not overlap (i += chunkSize)
chunkOffsetsDisjoint(length, chunkSize) ==
    {i \in 0..(length - chunkSize) : i % chunkSize = 0}

\* for (let i = 0; i <= clean.length - chunkSize; i += 2)
chunkOffsets(length, chunkSize) ==
    {i \in 0..(length - chunkSize) : i % 2 = 0}

chunkBytecode(bytecode) ==
    LET clean == toLowerCase(replace0x(bytecode))
    IN  {slice(clean, i, i + CHUNK_SIZE_HEX) : i \in chunkOffsets(Len(clean), CHUNK_SIZE_HEX)}

\* Math.round of a fraction that is not negative: halves go up
MathRound(x) == (2 * x.n + x.d) \div (2 * x.d)

preprocessLibrary(library) ==
    Tuple([i \in 1..Len(library) |->
        [entry |-> library[i],
         chunks |-> chunkBytecode(normalizeBytecode(library[i].bytecode).normalized)]])

\* a variant that sorts the lowest score first (a - b)
comparatorAscending(a, b) ==
    a.similarity_score.n * b.similarity_score.d - b.similarity_score.n * a.similarity_score.d

\* (a, b) => b.similarity_score - a.similarity_score, as an integer of the
\* same sign
comparator(a, b) ==
    b.similarity_score.n * a.similarity_score.d - a.similarity_score.n * b.similarity_score.d

\* Array.prototype.sort is stable: an element goes behind every element
\* that was before it in the array unless the comparator puts that one after
insertSorted(sorted, x) ==
    LET after == {k \in 1..Len(sorted) : comparator(sorted[k], x) > 0}
        pos == IF after = {} THEN Len(sorted) + 1 ELSE Min(after)
    IN  SubSeq(sorted, 1, pos - 1) \o <<x>> \o SubSeq(sorted, pos, Len(sorted))

RECURSIVE sort(_)
sort(array) ==
    IF array = <<>> THEN <<>>
    ELSE insertSorted(sort(SubSeq(array, 1, Len(array) - 1)), array[Len(array)])

compareToLibrary(target, library) ==
    LET targetChunks == chunkBytecode(normalizeBytecode(target).normalized)
        percent(legend) == jaccardSimilarity(targetChunks, legend.chunks)
    IN  sort(Tuple([i \in 1..Len(library) |->
            [legend_id |-> library[i].entry.id,
             legend_name |-> library[i].entry.name,
             category |-> library[i].entry.category,
             similarity_score |->
                 Rat(MathRound(Rat(percent(library[i]).n * 100, percent(library[i]).d)), 100)]]))

\* bytecodes of library entries and targets: a contract start, the same with
\* one byte less and one byte more, a single byte, two contracts that differ
\* in an embedded address only, and one with a repeated window
LegendCodes ==
    {HexPrefix \o toHex(b) : b \in
        { <<\H60, \H80, \H60, \H40, \H52>>,
          <<\H60, \H80, \H60, \H40>>,
          <<\H60, \H80, \H60, \H40, \H52, 0>>,
          <<0>>,
          <<PUSH20>> \o Repeat(\Haa, 20),
          <<PUSH20>> \o Repeat(\Hbb, 20),
          <<\H60, \H80, \H60, \H40, \H60, \H80, \H60, \H40>> }}

LegendEntry(k, code) ==
    [id |-> k, name |-> ToString(k), category |-> "legend", bytecode |-> code]

LibInit ==
    /\ legends = <<>>
    /\ processedLibrary = <<>>
    /\ targetBytecode = <<>>
    /\ results = <<>>
    /\ chunks = {}
    /\ libPc = "load"

\* the library file gets one more entry
AddLegend(code) ==
    /\ libPc = "load"
    /\ Len(legends) < MaxLegends
    /\ legends' = Append(legends, LegendEntry(Len(legends) + 1, code))
    /\ UNCHANGED <<processedLibrary, targetBytecode, results, chunks, libPc>>
    /\ UNCHANGED exceptLib

Preprocess ==
    /\ libPc = "load"
    /\ processedLibrary' = preprocessLibrary(legends)
    /\ libPc' = "ready"
    /\ UNCHANGED <<legends, targetBytecode, results, chunks>>
    /\ UNCHANGED exceptLib

Compare(target) ==
    /\ libPc = "ready"
    /\ targetBytecode' = target
    /\ results' = compareToLibrary(target, processedLibrary)
    /\ libPc' = "compared"
    /\ UNCHANGED <<legends, processedLibrary, chunks>>
    /\ UNCHANGED exceptLib

\* chunkBytecode on a bytecode by itself
Chunk(code) ==
    /\ libPc = "load"
    /\ legends = <<>>
    /\ targetBytecode' = code
    /\ chunks' = chunkBytecode(code)
    /\ libPc' = "chunked"
    /\ UNCHANGED <<legends, processedLibrary, results>>
    /\ UNCHANGED exceptLib

LibNext ==
    \/ \E code \in LegendCodes : AddLegend(code)
    \/ Preprocess
    \/ \E target \in LegendCodes : Compare(target)
    \/ \E code \in LegendCodes : Chunk(code)

\* nobody compares against a library
LibIdle == LibInit

(***************************************************************************)
(* src/services/analyzer.ts: analyzeToken, one action per stretch between  *)
(* two awaits.  The calls run one after the other against the module-wide  *)
(* analysisCache; resolveImplementation is the resolver above.  The clock  *)
(* stands still and the verdict and roast texts are left out of the data.  *)
(***************************************************************************)
DEFAULT_MAX_ENTRIES == 10000

\* a variant of the pattern without the length and the end anchor
ADDRESS_RE_prefix(tokenAddress) ==
    /\ Len(tokenAddress) > 2
    /\ startsWith(tokenAddress, HexPrefix)
    /\ \A i \in 3..Min({Len(tokenAddress), 42}) :
           tokenAddress[i] <= 15 \/ (tokenAddress[i] >= 26 /\ tokenAddress[i] <= 31)

\* /^0x[a-fA-F0-9]{40}$/.test(tokenAddress)
ADDRESS_RE(tokenAddress) ==
    /\ Len(tokenAddress) = 42
    /\ startsWith(tokenAddress, HexPrefix)
    /\ \A i \in 3..42 :
           tokenAddress[i] <= 15 \/ (tokenAddress[i] >= 26 /\ tokenAddress[i] <= 31)

\* a variant that looks entries up by the requested address
cacheTextByAddress(normalized, tokenAddress) == tokenAddress

\* analysisCache.get(normalized), analysisCache.set(normalized, ...): the
\* text the cache derives its key from
cacheText(normalized, tokenAddress) == normalized

\* a variant of the test that knows the absent reply only
noCodeAbsentOnly(rawBytecode) == rawBytecode = null

\* if (!rawBytecode || rawBytecode === '0x')
noCode(rawBytecode) == rawBytecode = null \/ rawBytecode = HexPrefix

\* config.library and what getProcessedLibrary() keeps of it
ConfigLibrary == <<LegendEntry(1, ShimCode), LegendEntry(2, LogicCode)>>
ProcessedConfigLibrary == preprocessLibrary(ConfigLibrary)

\* normalizeBytecode(...).normalized and compareToLibrary(...)[0] on the
\* codes the node holds
normalizedTexts == [c \in Programs |-> normalizeBytecode(c).normalized]
bestMatches == [c \in Programs |-> compareToLibrary(c, ProcessedConfigLibrary)[1]]

pending == <<20>>
NoRequest == [token |-> <<>>, chain |-> "base"]

ErrorResponse(code) ==
    [token |-> request.token, chain |-> request.chain, reply |-> rawReply,
     status |-> "error", code |-> code, data |-> null, normalized |-> null,
     cached |-> FALSE]

SuccessResponse(data, normalized, cached) ==
    [token |-> request.token, chain |-> request.chain, reply |-> rawReply,
     status |-> "success", code |-> "none", data |-> data, normalized |-> normalized,
     cached |-> cached]

\* the data of a contract without code
NoCodeData ==
    [token |-> request.token, chain |-> request.chain,
     similarity_score |-> Rat(0, 100), match_name |-> "N/A", match_category |-> "none",
     is_proxy |-> FALSE, proxy_implementation |-> null, bytecode_size |-> Rat(0, 1)]

\* the nodes the analyses run against: logic at the third address, logic
\* or a clone of the third at the second, and at the first a contract of
\* its own, nothing, a shim, or a clone or slot proxy of the second
AnalyzedChains ==
    {node \in [Addresses -> Contracts] :
        /\ node[Repeat(12, 40)].kind = "logic"
        /\ node[Repeat(11, 40)] \in
               {[kind |-> "logic", to |-> NoAddress],
                [kind |-> "clone", to |-> Repeat(12, 40)]}
        /\ node[Repeat(10, 40)] \in
               {[kind |-> "logic", to |-> NoAddress], [kind |-> "none", to |-> NoAddress],
                [kind |-> "slot", to |-> NoAddress],
                [kind |-> "clone", to |-> Repeat(11, 40)],
                [kind |-> "slot", to |-> Repeat(11, 40)]}}

\* requested addresses: the first two of the node, the third in capital
\* letters, and two that are no addresses (no "0x", 41 digits)
Tokens ==
    {HexPrefix \o Repeat(10, 40), HexPrefix \o Repeat(11, 40), HexPrefix \o Repeat(28, 40),
     Repeat(10, 40), HexPrefix \o Repeat(10, 41)}

AnalysisInit ==
    /\ anPc = "idle"
    /\ request = NoRequest
    /\ rawReply = pending
    /\ cacheEnabled \in BOOLEAN
    /\ fetches = 0
    /\ responses = <<>>
    /\ comparisons = 0
    /\ cache = <<>>
    /\ enabled = TRUE
    /\ maxEntries = DEFAULT_MAX_ENTRIES
    /\ now = 0
    /\ ticks = 0
    /\ last = [op |-> "new", key |-> NoKey, ret |-> "void", evicted |-> NoKey]
    /\ chain \in AnalyzedChains
    /\ module \in {"cache.ts", "proxy.ts"}
    /\ maxDepth = MaxDepthArg
    /\ resPc = "done"
    /\ currentBytecode = HexPrefix
    /\ currentAddress = HexPrefix \o StartAddress
    /\ depth = 0
    /\ lastProxy = NoDetection
    /\ failure = "none"
    /\ hopsFetched = 0
    /\ detectCalls = 0
    /\ storageReads = 0

\* analyzeToken is called: the address check, and fetchBytecode up to its
\* await
Call(tokenAddress, chainName) ==
    /\ anPc = "idle"
    /\ Len(responses) < MaxRequests
    /\ request' = [token |-> tokenAddress, chain |-> chainName]
    /\ rawReply' = pending
    /\ IF ~ADDRESS_RE(tokenAddress)
       THEN /\ responses' = Append(responses,
                  [token |-> tokenAddress, chain |-> chainName, reply |-> pending,
                   status |-> "error", code |-> "INVALID_ADDRESS", data |-> null,
                   normalized |-> null, cached |-> FALSE])
            /\ UNCHANGED <<anPc, fetches>>
       ELSE /\ anPc' = "fetchBytecode"
            /\ fetches' = fetches + 1
            /\ UNCHANGED responses
    /\ UNCHANGED <<cacheEnabled, comparisons, cacheVars, resVars>>
    /\ UNCHANGED exceptAnalysis

\* the first getBytecode settles: the rest of fetchBytecode, the test for
\* a contract without code, and resolveImplementation up to its loop
FetchSettles(bytecode) ==
    /\ anPc = "fetchBytecode"
    /\ bytecode \in getBytecode(chain, request.token)
    /\ rawReply' = bytecode
    /\ LET rawBytecode == IF module = "cache.ts"
                          THEN fetchBytecode(bytecode)
                          ELSE fetchBytecode_proxy_ts(bytecode)
       IN  IF rawBytecode = thrown
           THEN /\ responses' = Append(responses,
                      [ErrorResponse("ANALYSIS_FAILED") EXCEPT !.reply = bytecode])
                /\ anPc' = "idle"
                /\ UNCHANGED resVars
           ELSE IF noCode(rawBytecode)
           THEN /\ responses' = Append(responses,
                      [SuccessResponse(NoCodeData, null, FALSE) EXCEPT !.reply = bytecode])
                /\ anPc' = "idle"
                /\ UNCHANGED resVars
           ELSE /\ anPc' = "resolving"
                /\ resPc' = "loop"
                /\ currentBytecode' = rawBytecode
                /\ currentAddress' = request.token
                /\ depth' = 0
                /\ lastProxy' = NoDetection
                /\ hopsFetched' = 0
                /\ UNCHANGED <<responses, chain, module, maxDepth, failure,
                               detectCalls, storageReads>>
    /\ UNCHANGED <<request, cacheEnabled, fetches, comparisons, cacheVars>>
    /\ UNCHANGED exceptAnalysis

\* resolveImplementation has settled: normalisation, the cache, the
\* comparison with the library, and the return
Resolved ==
    /\ anPc = "resolving"
    /\ resPc \in {"done", "raised"}
    /\ anPc' = "idle"
    /\ IF resPc = "raised"
       THEN /\ responses' = Append(responses, ErrorResponse("ANALYSIS_FAILED"))
            /\ UNCHANGED <<comparisons, cacheVars>>
       ELSE LET resolved == resolution
                bytecodeToAnalyze == resolved.bytecode
                normalized == normalizedTexts[bytecodeToAnalyze]
                key == generateKey(cacheText(normalized, request.token))
                i == IF cacheEnabled /\ ~bypass(enabled) THEN mapIndex(cache, key) ELSE 0
                best == bestMatches[bytecodeToAnalyze]
                analysisResult ==
                    [token |-> request.token, chain |-> request.chain,
                     similarity_score |-> best.similarity_score,
                     match_name |-> best.legend_name,
                     match_category |-> best.category,
                     is_proxy |-> resolved.is_proxy,
                     proxy_implementation |-> resolved.implementation_address,
                     bytecode_size |-> Rat(Len(bytecodeToAnalyze) - 2, 2)]
            IN  IF i # 0
                THEN /\ cache' = [cache EXCEPT ![i].hitCount = @ + 1]
                     /\ last' = [op |-> "get", key |-> key, ret |-> "hit", evicted |-> NoKey]
                     /\ responses' = Append(responses,
                            SuccessResponse(
                                [cache[i].result EXCEPT
                                    !.token = request.token, !.chain = request.chain,
                                    !.is_proxy = resolved.is_proxy,
                                    !.proxy_implementation = resolved.implementation_address],
                                normalized, TRUE))
                     /\ UNCHANGED <<comparisons, enabled, maxEntries, now, ticks>>
                ELSE /\ comparisons' = comparisons + 1
                     /\ responses' = Append(responses,
                            SuccessResponse(analysisResult, normalized, FALSE))
                     /\ IF cacheEnabled /\ ~bypass(enabled)
                        THEN LET full == mustEvict(cache, maxEntries)
                                 readings == [r \in 1..(Len(cache) + 1) |-> now]
                                 kept == IF full THEN evict(cache, readings) ELSE cache
                             IN  /\ cache' = mapSet(kept, key,
                                        [result |-> analysisResult, createdAt |-> now,
                                         hitCount |-> 0])
                                 /\ last' = [op |-> "set", key |-> key, ret |-> "void",
                                             evicted |-> IF full THEN evictKey(cache, readings)
                                                         ELSE NoKey]
                                 /\ UNCHANGED <<enabled, maxEntries, now, ticks>>
                        ELSE IF cacheEnabled
                             THEN /\ last' = [op |-> "set", key |-> key, ret |-> "void",
                                              evicted |-> NoKey]
                                  /\ UNCHANGED <<cache, enabled, maxEntries, now, ticks>>
                             ELSE UNCHANGED cacheVars
    /\ UNCHANGED <<request, rawReply, cacheEnabled, fetches, resVars>>
    /\ UNCHANGED exceptAnalysis

AnalysisNext ==
    \/ \E tokenAddress \in Tokens, chainName \in {"base", "ethereum"} :
           Call(tokenAddress, chainName)
    \/ \E bytecode \in Codes : FetchSettles(bytecode)
    \/ ResolveLoop
    \/ \E slot \in SlotWords : StorageSettles(slot)
    \/ \E bytecode \in Codes : BytecodeSettles(bytecode)
    \/ Resolved

\* nobody asks for an analysis
AnalysisIdle ==
    /\ anPc = "idle"
    /\ request = NoRequest
    /\ rawReply = pending
    /\ cacheEnabled = TRUE
    /\ fetches = 0
    /\ responses = <<>>
    /\ comparisons = 0

(***************************************************************************)
(* Several calls of analyzeToken under way at once.  JavaScript runs one   *)
(* of them at a time and changes over at an await only, so every action    *)
(* below is the stretch of one call from the settling of the promise it    *)
(* waits for to its next await or its return.  The calls share the node,   *)
(* the configuration and the analysisCache; the locals of the call and of  *)
(* the resolveImplementation it makes are the fields of its task.  The     *)
(* clock stands still.                                                     *)
(***************************************************************************)
TaskIds == 1..MaxTasks

NoTask ==
    [pc |-> "idle", token |-> <<>>, currentBytecode |-> HexPrefix,
     currentAddress |-> HexPrefix, depth |-> 0, lastProxy |-> NoDetection,
     status |-> "none", code |-> "none", normalized |-> null, cached |-> FALSE]

\* return { status: 'error', error: { code } }
failed(task, code) == [task EXCEPT !.pc = "returned", !.status = "error", !.code = code]

\* the loop of resolveImplementation from its head to the next await or to
\* the return
enterLoop(task) ==
    IF ~withinDepth(task.depth, maxDepth) THEN [task EXCEPT !.pc = "resolved"]
    ELSE LET eip1167Impl == eip1167Impls[module][task.currentBytecode]
             heuristic == heuristics[module][task.currentBytecode]
         IN  IF eip1167Impl = thrown
             THEN [task EXCEPT !.pc = IF resolveCatches(module) THEN "resolved" ELSE "raised"]
             ELSE IF eip1167Impl # null
             THEN [task EXCEPT !.lastProxy = Detection("eip1167", eip1167Impl),
                               !.depth = @ + 1, !.pc = "getBytecode"]
             ELSE IF checksEIP1967(heuristic) THEN [task EXCEPT !.pc = "getStorageAt"]
             ELSE [task EXCEPT !.pc = "resolved"]

\* the calls of the cache one call of analyzeToken makes between the return
\* of resolveImplementation and its own return
lookup(t, key, ret) == [task |-> t, op |-> "get", key |-> key, ret |-> ret]
store(t, key) == [task |-> t, op |-> "set", key |-> key, ret |-> "void"]

\* the addresses asked for: the first two of the node and one that is no
\* address
RacingTokens ==
    {HexPrefix \o Repeat(10, 40), HexPrefix \o Repeat(11, 40), Repeat(10, 40)}

ConcurrentInit ==
    /\ tasks = [t \in TaskIds |-> NoTask]
    /\ cacheLog = <<>>
    /\ cache = <<>>
    /\ enabled = TRUE
    /\ maxEntries \in {1, DEFAULT_MAX_ENTRIES}
    /\ now = 0
    /\ ticks = 0
    /\ last = [op |-> "new", key |-> NoKey, ret |-> "void", evicted |-> NoKey]
    /\ cacheEnabled \in BOOLEAN
    /\ chain \in AnalyzedChains
    /\ module \in {"cache.ts", "proxy.ts"}
    /\ maxDepth = MaxDepthArg

\* what the calls share and none of them changes
config == <<enabled, maxEntries, cacheEnabled, chain, module, maxDepth>>

\* analyzeToken is called: the address check, and fetchBytecode up to its
\* await
Begin(t, tokenAddress) ==
    /\ tasks[t].pc = "idle"
    /\ tasks' = [tasks EXCEPT ![t] =
           IF ~ADDRESS_RE(tokenAddress)
           THEN failed([@ EXCEPT !.token = tokenAddress], "INVALID_ADDRESS")
           ELSE [@ EXCEPT !.token = tokenAddress, !.pc = "fetchBytecode"]]
    /\ UNCHANGED <<cache, cacheLog, config>>
    /\ UNCHANGED exceptConcurrent

\* the first getBytecode of call t settles: the rest of fetchBytecode, the
\* test for a contract without code, resolveImplementation up to its
\* first await
FetchReturns(t, bytecode) ==
    /\ tasks[t].pc = "fetchBytecode"
    /\ bytecode \in getBytecode(chain, tasks[t].token)
    /\ LET rawBytecode == IF module = "cache.ts"
                          THEN fetchBytecode(bytecode)
                          ELSE fetchBytecode_proxy_ts(bytecode)
       IN  tasks' = [tasks EXCEPT ![t] =
               IF rawBytecode = thrown THEN failed(@, "ANALYSIS_FAILED")
               ELSE IF noCode(rawBytecode)
               THEN [@ EXCEPT !.pc = "returned", !.status = "success"]
               ELSE enterLoop([@ EXCEPT !.currentBytecode = rawBytecode,
                                        !.currentAddress = tasks[t].token])]
    /\ UNCHANGED <<cache, cacheLog, config>>
    /\ UNCHANGED exceptConcurrent

\* the getStorageAt of call t settles: the rest of detectEIP1967 and of
\* detectProxy, on to the fetch of the implementation or out of the loop
SlotReturns(t, slot) ==
    /\ tasks[t].pc = "getStorageAt"
    /\ slot \in getStorageAt(chain, tasks[t].currentAddress)
    /\ LET eip1967Impl == IF module = "cache.ts"
                          THEN detectEIP1967(slot)
                          ELSE detectEIP1967_proxy_ts(slot)
       IN  tasks' = [tasks EXCEPT ![t] =
               IF eip1967Impl = thrown
               THEN [@ EXCEPT !.pc = IF resolveCatches(module) THEN "resolved" ELSE "raised"]
               ELSE IF eip1967Impl # null
               THEN [@ EXCEPT !.lastProxy = Detection("eip1967", eip1967Impl),
                              !.depth = @ + 1, !.pc = "getBytecode"]
               ELSE [@ EXCEPT !.pc = "resolved"]]
    /\ UNCHANGED <<cache, cacheLog, config>>
    /\ UNCHANGED exceptConcurrent

\* the getBytecode of an implementation settles for call t: the rest of
\* fetchBytecode and of the loop body, and the next round up to its await
CodeReturns(t, bytecode) ==
    /\ tasks[t].pc = "getBytecode"
    /\ bytecode \in getBytecode(chain, tasks[t].lastProxy.implementation_address)
    /\ LET implBytecode == IF module = "cache.ts"
                           THEN fetchBytecode(bytecode)
                           ELSE fetchBytecode_proxy_ts(bytecode)
       IN  tasks' = [tasks EXCEPT ![t] =
               IF implBytecode = thrown
               THEN [@ EXCEPT !.pc = IF resolveCatches(module) THEN "resolved" ELSE "raised"]
               ELSE IF implBytecode = null \/ implBytecode = HexPrefix
               THEN [@ EXCEPT !.pc = "resolved"]
               ELSE enterLoop([@ EXCEPT !.currentBytecode = implBytecode,
                                        !.currentAddress =
                                            tasks[t].lastProxy.implementation_address])]
    /\ UNCHANGED <<cache, cacheLog, config>>
    /\ UNCHANGED exceptConcurrent

\* resolveImplementation has settled for call t: normalisation, the cache
\* lookup, the comparison with the library, the cache store and the
\* return, with no await among them
Finish(t) ==
    /\ tasks[t].pc \in {"resolved", "raised"}
    /\ IF tasks[t].pc = "raised"
       THEN /\ tasks' = [tasks EXCEPT ![t] = failed(@, "ANALYSIS_FAILED")]
            /\ UNCHANGED <<cache, cacheLog>>
       ELSE LET task == tasks[t]
                bytecodeToAnalyze == task.currentBytecode
                normalized == normalizedTexts[bytecodeToAnalyze]
                key == generateKey(cacheText(normalized, task.token))
                consulted == cacheEnabled /\ ~bypass(enabled)
                i == IF consulted THEN mapIndex(cache, key) ELSE 0
                best == bestMatches[bytecodeToAnalyze]
                analysisResult ==
                    [token |-> task.token, chain |-> "base",
                     similarity_score |-> best.similarity_score,
                     match_name |-> best.legend_name,
                     match_category |-> best.category,
                     is_proxy |-> task.lastProxy.is_proxy,
                     proxy_implementation |-> task.lastProxy.implementation_address,
                     bytecode_size |-> Rat(Len(bytecodeToAnalyze) - 2, 2)]
                gets == IF cacheEnabled
                        THEN <<lookup(t, key, IF i # 0 THEN "hit" ELSE "null")>>
                        ELSE <<>>
                sets == IF cacheEnabled /\ i = 0 THEN <<store(t, key)>> ELSE <<>>
            IN  /\ tasks' = [tasks EXCEPT ![t] =
                       [@ EXCEPT !.pc = "returned", !.status = "success",
                                 !.normalized = normalized, !.cached = (i # 0)]]
                /\ cacheLog' = cacheLog \o gets \o sets
                /\ cache' =
                       IF i # 0 THEN [cache EXCEPT ![i].hitCount = @ + 1]
                       ELSE IF consulted
                       THEN LET readings == [r \in 1..(Len(cache) + 1) |-> now]
                                kept == IF mustEvict(cache, maxEntries)
                                        THEN evict(cache, readings) ELSE cache
                            IN  mapSet(kept, key, [result |-> analysisResult,
                                                   createdAt |-> now, hitCount |-> 0])
                       ELSE cache
    /\ UNCHANGED config
    /\ UNCHANGED exceptConcurrent

ConcurrentNext ==
    \/ \E t \in TaskIds, tokenAddress \in RacingTokens : Begin(t, tokenAddress)
    \/ \E t \in TaskIds, bytecode \in Codes : FetchReturns(t, bytecode)
    \/ \E t \in TaskIds, slot \in SlotWords : SlotReturns(t, slot)
    \/ \E t \in TaskIds, bytecode \in Codes : CodeReturns(t, bytecode)
    \/ \E t \in TaskIds : Finish(t)

\* no two calls at once
ConcurrentIdle ==
    /\ tasks = <<>>
    /\ cacheLog = <<>>

(***************************************************************************)
(* detectEIP1167 of both revisions on texts put together from the pieces   *)
(* of clones: prologue, addresses, epilogue, the pattern of the clone      *)
(* factory, and other code                                                 *)
(***************************************************************************)
\* 'A'..'F' for 'a'..'f'
toUpperCase(str) ==
    Tuple([i \in 1..Len(str) |->
        IF str[i] >= 10 /\ str[i] <= 15 THEN str[i] + 16 ELSE str[i]])

ClonePieces ==
    { EIP1167_PREFIX, toUpperCase(EIP1167_PREFIX), EIP1167_SUFFIX, ALT_CLONE_PATTERN,
      Repeat(10, 40), Repeat(27, 40), Repeat(12, 30), <<0, 0>> }

NoDetections == [m \in {"cache.ts", "proxy.ts"} |-> null]

DetectInit ==
    /\ bytecodeText = <<>>
    /\ pieces = 0
    /\ detPc = "build"
    /\ detected = NoDetections

\* the caller puts the text together
AppendPiece(piece) ==
    /\ detPc = "build"
    /\ pieces < MaxPieces
    /\ bytecodeText' = bytecodeText \o piece
    /\ pieces' = pieces + 1
    /\ UNCHANGED <<detPc, detected>>
    /\ UNCHANGED exceptDetect

\* detectEIP1167(bytecode), the text with or without "0x" in front
Detect(prefixed) ==
    /\ detPc = "build"
    /\ LET bytecode == IF prefixed THEN HexPrefix \o bytecodeText ELSE bytecodeText
       IN  detected' = [m \in {"cache.ts", "proxy.ts"} |->
                           IF m = "cache.ts" THEN detectEIP1167(bytecode)
                           ELSE detectEIP1167_proxy_ts(bytecode)]
    /\ detPc' = "detected"
    /\ UNCHANGED <<bytecodeText, pieces>>
    /\ UNCHANGED exceptDetect

DetectNext ==
    \/ \E piece \in ClonePieces : AppendPiece(piece)
    \/ \E prefixed \in BOOLEAN : Detect(prefixed)

\* nobody detects
DetectIdle == DetectInit

NormStart == NormInit /\ CacheIdle /\ SimIdle /\ ResIdle /\ LibIdle /\ AnalysisIdle /\ ConcurrentIdle /\ DetectIdle
SpecNorm == NormStart /\ [][NormNext]_vars

CacheStart == CacheInit /\ NormIdle /\ SimIdle /\ ResIdle /\ LibIdle /\ AnalysisIdle /\ ConcurrentIdle /\ DetectIdle
SpecCache == CacheStart /\ [][CacheNext]_vars

SimStart == SimInit /\ NormIdle /\ CacheIdle /\ ResIdle /\ LibIdle /\ AnalysisIdle /\ ConcurrentIdle /\ DetectIdle
SpecSim == SimStart /\ [][SimNext]_vars

ResStart == ResInit /\ NormIdle /\ CacheIdle /\ SimIdle /\ LibIdle /\ AnalysisIdle /\ ConcurrentIdle /\ DetectIdle
SpecResolve == ResStart /\ [][ResNext]_vars

LibStart == LibInit /\ NormIdle /\ CacheIdle /\ SimIdle /\ ResIdle /\ AnalysisIdle /\ ConcurrentIdle /\ DetectIdle
SpecLib == LibStart /\ [][LibNext]_vars

AnalysisStart == AnalysisInit /\ NormIdle /\ SimIdle /\ LibIdle /\ ConcurrentIdle /\ DetectIdle
SpecAnalysis == AnalysisStart /\ [][AnalysisNext]_vars

ConcurrentStart ==
    /\ ConcurrentInit /\ NormIdle /\ SimIdle /\ LibIdle /\ DetectIdle
    /\ resPc = "done" /\ currentBytecode = HexPrefix /\ currentAddress = HexPrefix \o StartAddress
    /\ depth = 0 /\ lastProxy = NoDetection /\ failure = "none"
    /\ hopsFetched = 0 /\ detectCalls = 0 /\ storageReads = 0
    /\ anPc = "idle" /\ request = NoRequest /\ rawReply = pending
    /\ fetches = 0 /\ responses = <<>> /\ comparisons = 0
SpecConcurrent == ConcurrentStart /\ [][ConcurrentNext]_vars

DetectStart ==
    /\ DetectInit /\ NormIdle /\ CacheIdle /\ SimIdle /\ ResIdle /\ LibIdle
    /\ AnalysisIdle /\ ConcurrentIdle
SpecDetect == DetectStart /\ [][DetectNext]_vars

\* every call of the node settles and the continuation then runs
SpecResolveLive == SpecResolve /\ WF_vars(ResNext)

(***************************************************************************)
(* Vocabulary of the properties                                            *)
(***************************************************************************)
\* length of the operand that follows opcode op (section 4.1 of the spec)
OperandLength(op) == IF op >= PUSH1 /\ op <= PUSH32 THEN op - PUSH1 + 1 ELSE 0

\* the 0-based indices at which the instructions of a byte sequence start
RECURSIVE InstructionStarts(_, _)
InstructionStarts(bytes, i) ==
    IF i >= Len(bytes) THEN {}
    ELSE {i} \cup InstructionStarts(bytes, i + 1 + OperandLength(bytes[i + 1]))

\* the 0-based indices of the PUSH20 instructions whose 20 operand bytes all
\* lie inside the sequence
FullPush20s(bytes) ==
    {i \in InstructionStarts(bytes, 0) : bytes[i + 1] = PUSH20 /\ i + 20 < Len(bytes)}

\* whether 1-based position p lies in the operand window of one of them
InPush20Operand(bytes, p) ==
    \E i \in FullPush20s(bytes) : p >= i + 2 /\ p <= i + 21

Keys(map) == {map[i].key : i \in 1..Len(map)}

\* where the proxy at address a points, as the node has it
RECURSIVE AddressAfter(_, _)
AddressAfter(node, hops) ==
    IF hops = 0 THEN StartAddress ELSE node[AddressAfter(node, hops - 1)].to

ProxyTypeAt(node, a) == IF node[a].kind = "clone" THEN "eip1167" ELSE "eip1967"

PointsTo(node, a, b) == node[a].kind \in {"clone", "slot"} /\ node[a].to = b

\* the start address and a second one are each other's implementation
Cycle ==
    \E b \in Addresses \ {StartAddress} :
        PointsTo(chain, StartAddress, b) /\ PointsTo(chain, b, StartAddress)

(***************************************************************************)
(* C2: resolveImplementation terminates whatever the node answers, its     *)
(* depth never exceeds maxDepth, and on a cycle of two proxies that the    *)
(* node serves without a rejected call it ends with depth = maxDepth.      *)
(***************************************************************************)
C2_TerminatesWithinMaxDepth ==
    /\ <>(resPc = "done")
    /\ [](depth <= maxDepth)
    /\ []((resPc = "done" /\ Cycle /\ failure = "none")
            => resolution.resolution_depth = maxDepth)

\* a cycle was followed for the largest maxDepth and the call has returned
C2_Witness ==
    /\ resPc = "done"
    /\ Cycle
    /\ failure = "none"
    /\ maxDepth = MaxDepthArg
    /\ hopsFetched = maxDepth
    /\ resolution.resolution_depth = maxDepth

(***************************************************************************)
(* C3: a rejected getStorageAt or getBytecode never makes                  *)
(* resolveImplementation raise; it returns the code of the last            *)
(* implementation it fetched (the code it was given if none) and the last  *)
(* detection that had an implementation address.                           *)
(***************************************************************************)
C3_RejectedCallNotFatal ==
    /\ resPc # "raised"
    /\ (resPc = "done" /\ failure # "none")
       => LET at == AddressAfter(chain, hopsFetched)
              before == AddressAfter(chain, hopsFetched - 1)
          IN  /\ resolution.bytecode = codeAt(chain, HexPrefix \o at)
              /\ IF failure = "getBytecode"
                 THEN /\ resolution.is_proxy
                      /\ resolution.proxy_type = ProxyTypeAt(chain, at)
                      /\ toLowerCase(resolution.implementation_address)
                             = HexPrefix \o chain[at].to
                 ELSE IF hopsFetched = 0
                 THEN /\ ~resolution.is_proxy
                      /\ resolution.proxy_type = "none"
                      /\ resolution.implementation_address = null
                 ELSE /\ resolution.is_proxy
                      /\ resolution.proxy_type = ProxyTypeAt(chain, before)
                      /\ toLowerCase(resolution.implementation_address) = HexPrefix \o at

\* the fetch of the second implementation was rejected after the first had
\* been adopted
C3_Witness ==
    /\ resPc = "done"
    /\ failure = "getBytecode"
    /\ hopsFetched = 1
    /\ resolution.bytecode = codeAt(chain, HexPrefix \o AddressAfter(chain, 1))
    /\ resolution.bytecode # codeAt(chain, HexPrefix \o StartAddress)

(***************************************************************************)
(* C4: the resolution_depth that resolveImplementation returns is the      *)
(* number of hops whose implementation code was fetched and adopted.       *)
(***************************************************************************)
C4_DepthIsHopsAdopted ==
    resPc = "done" => resolution.resolution_depth = hopsFetched

(***************************************************************************)
(* C9: jaccardSimilarity lies in [0, 100]; it is 100 for equal sets, empty *)
(* or not, 0 when exactly one set is empty, and for two non-empty sets     *)
(* |A n B| / (|A| + |B| - |A n B|) * 100.                                   *)
(***************************************************************************)
C9_JaccardValue ==
    simPc = "done" =>
        LET sizeA == Cardinality(setA)
            sizeB == Cardinality(setB)
            both == Cardinality(setA \cap setB)
        IN  /\ similarity.d > 0
            /\ 0 <= similarity.n
            /\ similarity.n <= 100 * similarity.d
            /\ setA = setB => similarity.n = 100 * similarity.d
            /\ (sizeA = 0) # (sizeB = 0) => similarity.n = 0
            /\ (sizeA > 0 /\ sizeB > 0)
               => similarity.n * (sizeA + sizeB - both) = both * 100 * similarity.d

\* two different sets sharing one of three chunks were compared
C9_Witness ==
    /\ simPc = "done"
    /\ Cardinality(setA \cap setB) = 1
    /\ Cardinality(setA \cup setB) = 3
    /\ similarity.n * 3 = similarity.d * 100

(***************************************************************************)
(* C1: normalizeBytecode is idempotent: normalizing the normalized output  *)
(* of a first pass gives the same normalized bytes again.                  *)
(***************************************************************************)
C1_Idempotent ==
    normPc = "normalized" => norm2.normalized = norm1.normalized

(***************************************************************************)
(* C10: maskAddresses returns a sequence as long as its input in which the *)
(* 20 operand bytes of every PUSH20 at an instruction boundary are zero    *)
(* and every byte outside these windows is the input's byte; the input     *)
(* buffer is left as it was.                                               *)
(***************************************************************************)
C10_MaskFrame ==
    normPc = "masked" =>
        LET out == maskRes.heap[maskRes.masked]
        IN  /\ Len(out) = Len(rawBytes)
            /\ \A p \in 1..Len(rawBytes) :
                   out[p] = IF InPush20Operand(rawBytes, p) THEN 0 ELSE rawBytes[p]
            /\ maskRes.heap[1] = rawBytes

\* a PUSH20 with a non-zero address behind other bytes has been masked
C10_Witness ==
    /\ normPc = "masked"
    /\ \E i \in FullPush20s(rawBytes) : i > 0 /\ rawBytes[i + 2] # 0
    /\ \E p \in 1..Len(rawBytes) : ~InPush20Operand(rawBytes, p) /\ rawBytes[p] # 0

(***************************************************************************)
(* C11: maskAddresses counts exactly the PUSH20 instructions that the      *)
(* opcode walk reaches with all 20 operand bytes inside the buffer.  A     *)
(* 0x73 byte in the operand of another PUSH, and a PUSH20 cut short by the *)
(* end of the buffer, leave the bytes behind them as they were, unless     *)
(* those bytes are the operand of a counted PUSH20.                        *)
(***************************************************************************)
C11_MasksReachedPush20Only ==
    normPc = "masked" =>
        LET out == maskRes.heap[maskRes.masked]
            starts == InstructionStarts(rawBytes, 0)
            full == {i \in starts : rawBytes[i + 1] = PUSH20 /\ i + 21 <= Len(rawBytes)}
            covered(p) == \E i \in full : i + 2 <= p /\ p <= i + 21
        IN  /\ maskRes.addressesMasked = Cardinality(full)
            /\ \A i \in full : \A p \in (i + 2)..(i + 21) : out[p] = 0
            /\ \A j \in 0..(Len(rawBytes) - 1) :
                   rawBytes[j + 1] = PUSH20 /\ j \notin full =>
                       \A p \in (j + 2)..Min({j + 21, Len(rawBytes)}) :
                           covered(p) \/ out[p] = rawBytes[p]

\* a 0x73 that is the operand of a PUSH1, with an address-like run of 20
\* bytes behind it, went through maskAddresses uncounted and unmasked
C11_Witness ==
    /\ normPc = "masked"
    /\ rawBytes = <<PUSH1, PUSH20>> \o Repeat(\Haa, 20)
    /\ maskRes.addressesMasked = 0
    /\ maskRes.heap[maskRes.masked] = rawBytes

(***************************************************************************)
(* C12: the delegate-call scans obey the push-operand skip rule.           *)
(* containsDelegateCall, and hasProxyCharacteristics on bytecode of 200    *)
(* bytes or more without a known proxy prefix, report a 0xf4 exactly when  *)
(* one stands at an instruction boundary (for hasProxyCharacteristics:     *)
(* within the first 100 bytes); a 0xf4 inside a PUSH operand is not one.   *)
(***************************************************************************)
DelegateCallAtBoundary(bytes) ==
    \E i \in InstructionStarts(bytes, 0) : bytes[i + 1] = DELEGATECALL

C12_ScansSkipPushOperands ==
    normPc = "scanned" =>
        /\ scanRes.containsDelegateCall = DelegateCallAtBoundary(rawBytes)
        /\ scanRes.hasProxyCharacteristics = DelegateCallAtBoundary(rawBytes)
        /\ scanRes.hasProxyCharacteristics_proxy_ts = DelegateCallAtBoundary(rawBytes)

(***************************************************************************)
(* C13: for bytes that end in a trailer (a known prefix a264 or a265,      *)
(* filler, and the big-endian 16-bit length L of prefix and filler, with   *)
(* 0 < L < 200) stripMetadata returns the bytes before the trailer and     *)
(* reports L + 2 bytes removed; for bytes on which the length check and    *)
(* the textual fallback both fail it returns the input with 0 removed.     *)
(***************************************************************************)
\* bytes = payload, known prefix, filler, length L of prefix and filler
TrailerOf(bytes, L) ==
    /\ L >= 2 /\ L < 200
    /\ Len(bytes) >= L + 2
    /\ bytes[Len(bytes) - 1] * 256 + bytes[Len(bytes)] = L
    /\ bytes[Len(bytes) - 1 - L] = \Ha2
    /\ bytes[Len(bytes) - L] \in {\H64, \H65}

\* the hex text ends in 0033 and holds a264 or a265 somewhere
FallbackMatches(bytes) ==
    /\ endsWith(toHex(bytes), <<0, 0, 3, 3>>)
    /\ \E i \in 0..(2 * Len(bytes) - 4) :
           \/ occursAt(toHex(bytes), <<10, 2, 6, 4>>, i)
           \/ occursAt(toHex(bytes), <<10, 2, 6, 5>>, i)

C13_StripsExactTrailer ==
    normPc = "stripped" =>
        /\ \A L \in 2..199 :
               TrailerOf(rawBytes, L) =>
                   /\ stripRes.stripped = SubSeq(rawBytes, 1, Len(rawBytes) - L - 2)
                   /\ stripRes.bytesRemoved = Rat(L + 2, 1)
        /\ (~(\E L \in 2..199 : TrailerOf(rawBytes, L)) /\ ~FallbackMatches(rawBytes)) =>
               /\ stripRes.stripped = rawBytes
               /\ stripRes.bytesRemoved = Rat(0, 1)

\* a payload with a four-byte trailer behind it went through stripMetadata
C13_Witness ==
    /\ normPc = "stripped"
    /\ Len(rawBytes) > 4
    /\ TrailerOf(rawBytes, 2)
    /\ stripRes.stripped # <<>>
    /\ stripRes.bytesRemoved = Rat(4, 1)

(***************************************************************************)
(* C14: compareToLibrary returns exactly one result per library entry,     *)
(* sorted by similarity_score in descending order; results with equal      *)
(* scores are in the library's order.                                      *)
(***************************************************************************)
\* the score of a result as a number of hundredths
Hundredths(r) == (r.similarity_score.n * 100) \div r.similarity_score.d

C14_OnePerEntrySortedStable ==
    libPc = "compared" =>
        /\ Len(results) = Len(legends)
        /\ \A e \in 1..Len(legends) :
               Cardinality({k \in 1..Len(results) : results[k].legend_id = legends[e].id}) = 1
        /\ \A k, l \in 1..Len(results) :
               k < l =>
                   /\ Hundredths(results[k]) >= Hundredths(results[l])
                   /\ Hundredths(results[k]) = Hundredths(results[l]) =>
                          results[k].legend_id < results[l].legend_id

\* the best match is not the library's first entry, and two entries tie
C14_Witness ==
    /\ libPc = "compared"
    /\ Len(results) = 3
    /\ results[1].legend_id # 1
    /\ Hundredths(results[1]) > Hundredths(results[2])
    /\ Hundredths(results[2]) = Hundredths(results[3])
    /\ Hundredths(results[3]) > 0

C16_ChunksAreAllWindows ==
    libPc = "chunked" =>
        LET bytes == fromHex(stripHexPrefix(targetBytecode))
            n == Len(bytes)
            window(k) == toHex(SubSeq(bytes, k, k + 3))
        IN  /\ \A k \in 1..(n - 3) : window(k) \in chunks
            /\ \A c \in chunks : Len(c) = 8 /\ \E k \in 1..(n - 3) : c = window(k)
            /\ n < 4 => chunks = {}
            /\ n >= 4 => Cardinality(chunks) <= n - 3
            /\ (\A k, l \in 1..(n - 3) : k # l => window(k) # window(l)) =>
                   Cardinality(chunks) = Max({n - 3, 0})

\* a bytecode of eight bytes whose first and last windows are the same
\* was chunked: four chunks for five windows
C16_Witness ==
    /\ libPc = "chunked"
    /\ Len(targetBytecode) = 18
    /\ Cardinality(chunks) = 4
    /\ slice(targetBytecode, 2, 10) \in chunks
    /\ slice(targetBytecode, 4, 12) \in chunks

(***************************************************************************)
(* C20: in every detectProxy call, getStorageAt is issued only after clone *)
(* detection found nothing and hasProxyCharacteristics returned true; in   *)
(* every other case no storage read is issued; a detectProxy call (a hop   *)
(* of the resolver) issues at most one storage read.                       *)
(***************************************************************************)
\* clone detection finds nothing in the current bytecode and the heuristic
\* of the revision that runs says yes
StorageGateOpen ==
    IF module = "cache.ts"
    THEN detectEIP1167(currentBytecode) = null /\ hasProxyCharacteristics(currentBytecode)
    ELSE /\ detectEIP1167_proxy_ts(currentBytecode) = null
         /\ hasProxyCharacteristics_proxy_ts(currentBytecode)

C20_StorageReadGated ==
    [][/\ storageReads' \in {storageReads, storageReads + 1}
       /\ storageReads' # storageReads =>
              /\ resPc = "loop" /\ resPc' = "getStorageAt"
              /\ detectCalls' = detectCalls + 1
              /\ StorageGateOpen
       /\ (resPc = "loop" /\ ~StorageGateOpen) =>
              (storageReads' = storageReads /\ resPc' # "getStorageAt")
       /\ resPc # "loop" => resPc' # "getStorageAt"
       /\ storageReads' <= detectCalls']_vars

\* the first hop was a clone and cost no storage read, the second hop's
\* contract passed the gate and its slot is being read
C20_Witness ==
    /\ resPc = "getStorageAt"
    /\ detectCalls = 2
    /\ storageReads = 1
    /\ hopsFetched = 1

(***************************************************************************)
(* C17: the cache is keyed by the normalized bytecode, not by the address. *)
(* With the cache switched on, an analysis of an address whose resolved    *)
(* bytecode normalizes to the bytes of an earlier successful analysis of   *)
(* another address is served from the one entry both share: it reports     *)
(* the earlier similarity_score and match_name, and the token and chain of *)
(* its own request.                                                        *)
(***************************************************************************)
\* the bytes a normalized text stands for
BytesOf(normalized) == fromHex(stripHexPrefix(normalized))

C17_SharedEntryByContent ==
    \A i, j \in 1..Len(responses) :
        (/\ i < j
         /\ cacheEnabled
         /\ responses[i].status = "success" /\ responses[i].normalized # null
         /\ responses[j].status = "success" /\ responses[j].normalized # null
         /\ BytesOf(responses[i].normalized) = BytesOf(responses[j].normalized)
         /\ responses[i].token # responses[j].token) =>
            /\ responses[j].cached
            /\ responses[j].data.similarity_score = responses[i].data.similarity_score
            /\ responses[j].data.match_name = responses[i].data.match_name
            /\ responses[j].data.token = responses[j].token
            /\ responses[j].data.chain = responses[j].chain
            /\ Cardinality({k \in 1..Len(cache) :
                               cache[k].key = BytesOf(responses[j].normalized)}) = 1

\* a contract and a proxy of a contract with the same code were analysed
\* on different chains; the second answer came from the cache
C17_Witness ==
    /\ Len(responses) = 2
    /\ responses[1].status = "success" /\ responses[2].status = "success"
    /\ responses[1].token # responses[2].token
    /\ responses[1].chain # responses[2].chain
    /\ responses[2].cached
    /\ responses[2].data.is_proxy /\ ~responses[1].data.is_proxy
    /\ Len(cache) = 1 /\ cache[1].hitCount = 1

(***************************************************************************)
(* C18: analyzeToken with an address that is not 0x followed by exactly 40 *)
(* hex characters returns INVALID_ADDRESS at once: no getBytecode and no   *)
(* getStorageAt is issued, and the cache is neither read nor written.      *)
(***************************************************************************)
\* "0x" and 40 characters out of 0-9, a-f, A-F
WellFormed(token) ==
    /\ Len(token) = 42
    /\ token[1] = 0 /\ token[2] = 16
    /\ \A i \in 3..42 : token[i] \in (0..15) \cup (26..31)

C18_InvalidAddressTouchesNothing ==
    [][(Len(responses') > Len(responses) /\ ~WellFormed(responses'[Len(responses')].token)) =>
           /\ responses' = Append(responses, responses'[Len(responses')])
           /\ responses'[Len(responses')].status = "error"
           /\ responses'[Len(responses')].code = "INVALID_ADDRESS"
           /\ anPc = "idle" /\ anPc' = "idle"
           /\ fetches' = fetches
           /\ UNCHANGED <<resVars, cacheVars>>]_vars

\* after an analysis that filled the cache, a call with a malformed
\* address was turned down
C18_Witness ==
    /\ Len(responses) = 2
    /\ responses[1].status = "success" /\ Len(cache) = 1
    /\ ~WellFormed(responses[2].token)
    /\ responses[2].code = "INVALID_ADDRESS"
    /\ fetches = 1
    /\ last.op = "set"

(***************************************************************************)
(* C19: when the first getBytecode of an analysis of a valid address is    *)
(* rejected, analyzeToken returns the error ANALYSIS_FAILED, not the       *)
(* success result of a contract without code, and leaves the cache as it   *)
(* was.                                                                    *)
(***************************************************************************)
C19_FetchFailureIsAnalysisFailed ==
    [][(anPc = "fetchBytecode" /\ rawReply' = thrown) =>
           /\ anPc' = "idle"
           /\ responses' = Append(responses, responses'[Len(responses')])
           /\ responses'[Len(responses')].token = request.token
           /\ responses'[Len(responses')].status = "error"
           /\ responses'[Len(responses')].code = "ANALYSIS_FAILED"
           /\ UNCHANGED cacheVars]_vars

(***************************************************************************)
(* C5: the entry count of a cache of capacity N >= 1 never exceeds N, and  *)
(* a set of a key that is not cached into a full, enabled cache leaves     *)
(* exactly N entries.                                                      *)
(***************************************************************************)
C5_CapacityBound ==
    /\ Len(cache) <= maxEntries
    /\ [][/\ Len(cache') <= maxEntries'
          /\ \A nb \in CacheInputs, r \in Results :
                (/\ enabled
                 /\ Len(cache) = maxEntries
                 /\ ~mapHas(cache, generateKey(nb))
                 /\ last'.op = "set"
                 /\ Set(nb, r))
                => Len(cache') = maxEntries]_vars

\* a new key went into a full cache of capacity 2 and one entry was evicted
C5_Witness ==
    /\ last.op = "set"
    /\ maxEntries = 2
    /\ Len(cache) = maxEntries
    /\ last.evicted # NoKey
    /\ last.evicted # last.key

LowestScoreFirst(map, time) ==
    LET lowest == Min({score(map[i], time) : i \in 1..Len(map)})
    IN  map[Min({i \in 1..Len(map) : score(map[i], time) = lowest})]

C7_EvictsLowestScore ==
    [][\A nb \in CacheInputs, r \in Results :
          (enabled /\ Len(cache) >= maxEntries /\ last'.op = "set" /\ Set(nb, r))
          => LET victim == LowestScoreFirst(cache, now)
             IN  /\ last'.evicted = victim.key
                 /\ Keys(cache) \ Keys(cache') \subseteq {victim.key}
                 /\ Keys(cache') = (Keys(cache) \ {victim.key}) \cup {generateKey(nb)}
                 /\ victim.hitCount = 0
                    => \A i \in 1..Len(cache) :
                          cache[i].hitCount = 0 => cache[i].createdAt >= victim.createdAt]_vars

(***************************************************************************)
(* C8: while the cache is disabled every get returns absent and get and    *)
(* set leave the entries, their hit counters and their timestamps as they  *)
(* are; setEnabled does not touch the entries, and an enabled get of a     *)
(* cached key returns the stored result.                                   *)
(***************************************************************************)
C8_DisabledBypass ==
    [][/\ \A nb \in CacheInputs :
             (~enabled /\ last'.op = "get" /\ Get(nb))
             => (last'.ret = "null" /\ cache' = cache)
       /\ \A nb \in CacheInputs, r \in Results :
             (~enabled /\ last'.op = "set" /\ Set(nb, r)) => cache' = cache
       /\ \A on \in BOOLEAN :
             (last'.op = "setEnabled" /\ SetEnabled(on)) => cache' = cache
       /\ \A nb \in CacheInputs :
             (enabled /\ mapHas(cache, generateKey(nb)) /\ last'.op = "get" /\ Get(nb))
             => last'.ret = cache[mapIndex(cache, generateKey(nb))].result]_vars

\* a disabled cache was asked for a key it holds and answered absent
C8_Witness ==
    /\ ~enabled
    /\ last.op = "get"
    /\ mapHas(cache, last.key)
    /\ last.ret = "null"

(***************************************************************************)
(* C21: with several calls of analyzeToken under way at once and changing  *)
(* over at their awaits only, the cache lookup of a call that misses is    *)
(* followed at once by the store of the same call under the same           *)
(* fingerprint, and no store goes without that lookup before it; the cache *)
(* never holds two entries of one fingerprint nor more entries than its    *)
(* capacity; and when two calls that met the same fingerprint have both    *)
(* returned and no other fingerprint was looked up, that fingerprint was   *)
(* stored once, is cached once, and one of the two calls was served from   *)
(* the cache.                                                              *)
(***************************************************************************)
C21_CacheSectionAtomic ==
    /\ \A i \in 1..Len(cacheLog) :
           (cacheLog[i].op = "get" /\ cacheLog[i].ret = "null")
           => /\ i < Len(cacheLog)
              /\ cacheLog[i + 1] = store(cacheLog[i].task, cacheLog[i].key)
    /\ \A i \in 1..Len(cacheLog) :
           cacheLog[i].op = "set"
           => /\ i > 1
              /\ cacheLog[i - 1] = lookup(cacheLog[i].task, cacheLog[i].key, "null")
    /\ \A i, j \in 1..Len(cache) : cache[i].key = cache[j].key => i = j
    /\ Len(cache) <= maxEntries
    /\ \A s, t \in TaskIds :
           ( /\ s # t
             /\ cacheEnabled
             /\ tasks[s].pc = "returned" /\ tasks[s].normalized # null
             /\ tasks[t].pc = "returned" /\ tasks[t].normalized # null
             /\ tasks[s].normalized = tasks[t].normalized
             /\ \A i \in 1..Len(cacheLog) :
                    cacheLog[i].key = generateKey(tasks[s].normalized) )
           => /\ Cardinality({i \in 1..Len(cache) :
                     cache[i].key = generateKey(tasks[s].normalized)}) = 1
              /\ Cardinality({i \in 1..Len(cacheLog) : cacheLog[i].op = "set"}) = 1
              /\ tasks[s].cached \/ tasks[t].cached

\* two calls for different addresses were under way together, met the same
\* fingerprint, and the second was served from the entry of the first
C21_Witness ==
    /\ tasks[1].pc = "returned" /\ tasks[2].pc = "returned"
    /\ tasks[1].token # tasks[2].token
    /\ tasks[1].normalized # null
    /\ tasks[1].normalized = tasks[2].normalized
    /\ ~tasks[1].cached /\ tasks[2].cached
    /\ Len(cacheLog) = 3
    /\ Len(cache) = 1

(***************************************************************************)
(* C22: with the cache enabled, set(k, r) leaves k present with result r,  *)
(* hit counter 0 and the timestamp of the call; a get that hits returns    *)
(* the stored result, adds exactly 1 to the hit counter of that entry and  *)
(* changes nothing else; a get that misses changes nothing; and the        *)
(* totalHits of getStats() is the sum of the hit counters of the entries   *)
(* present, before and after every call.                                   *)
(***************************************************************************)
C22_GetSetCounters ==
    [][/\ \A nb \in CacheInputs, r \in Results :
             (enabled /\ last'.op = "set" /\ last'.key = generateKey(nb) /\ Set(nb, r))
             => LET i == mapIndex(cache', generateKey(nb))
                IN  /\ i # 0
                    /\ cache'[i].result = r
                    /\ cache'[i].hitCount = 0
                    /\ cache'[i].createdAt = now'
       /\ \A nb \in CacheInputs :
             (enabled /\ last'.op = "get" /\ last'.key = generateKey(nb) /\ Get(nb))
             => LET i == mapIndex(cache, generateKey(nb))
                IN  IF i # 0
                    THEN /\ last'.ret = cache[i].result
                         /\ cache' = [cache EXCEPT ![i].hitCount = cache[i].hitCount + 1]
                    ELSE /\ last'.ret = "null"
                         /\ cache' = cache
       /\ getStats(cache').totalHits =
              Cardinality({p \in (1..Len(cache')) \X (1..(MaxHits + 1)) :
                              p[2] <= cache'[p[1]].hitCount})
       /\ getStats(cache').entries = Len(cache')]_vars

\* an entry that was hit stands beside a later one that was not, and the
\* latest call was a get that hit
C22_Witness ==
    /\ enabled
    /\ Len(cache) = 2
    /\ last.op = "get" /\ last.ret # "null"
    /\ getStats(cache).totalHits = 1
    /\ \E i \in 1..2 : cache[i].hitCount = 0

(***************************************************************************)
(* C23: when the first getBytecode for a well-formed address settles with  *)
(* no code (undefined or "0x"), analyzeToken returns at once with status   *)
(* success, similarity_score 0, match_name 'N/A', is_proxy false and       *)
(* bytecode_size 0: resolveImplementation is not entered, detectProxy and  *)
(* getStorageAt are not called, compareToLibrary is not called, and the    *)
(* cache is neither read nor written.                                      *)
(***************************************************************************)
C23_NoCodeIsSuccessWithoutWork ==
    [][(anPc = "fetchBytecode" /\ rawReply' \in {undefined, HexPrefix})
       => /\ anPc' = "idle"
          /\ Len(responses') = Len(responses) + 1
          /\ LET r == responses'[Len(responses')]
             IN  /\ r.status = "success"
                 /\ r.token = request.token
                 /\ r.data.similarity_score.n = 0
                 /\ r.data.match_name = "N/A"
                 /\ r.data.is_proxy = FALSE
                 /\ r.data.bytecode_size.n = 0
                 /\ ~r.cached
          /\ comparisons' = comparisons
          /\ UNCHANGED <<resPc, depth, lastProxy, detectCalls, storageReads, hopsFetched>>
          /\ UNCHANGED <<cache, last>>]_vars

\* an address without code was analysed after one with code had been
\* cached: the answer is the one for no code, the cache as it was
C23_Witness ==
    /\ Len(responses) = 2
    /\ responses[1].status = "success" /\ responses[1].normalized # null
    /\ responses[2].reply = HexPrefix
    /\ responses[2].status = "success"
    /\ responses[2].data.match_name = "N/A"
    /\ Len(cache) = 1
    /\ comparisons = 1

(***************************************************************************)
(* C24: an analysis of an address with code runs in the order fetch,       *)
(* proxy resolution, normalisation and cache lookup: the resolver works    *)
(* only after the first fetch has brought code, and the cache is touched   *)
(* and the comparator called only in the step that follows the end of the  *)
(* resolution.  When that step is answered from the cache, the comparator  *)
(* is not called and the Map keeps its keys and its size; when it is not,  *)
(* the comparator is called exactly once and, with caching configured, its *)
(* result is then found in the Map under the bytes that the code at the    *)
(* last address the resolver adopted normalizes to.                        *)
(***************************************************************************)
C24_PipelineOrder ==
    [][/\ (anPc' = "resolving" /\ anPc # "resolving")
          => (anPc = "fetchBytecode" /\ rawReply' \notin {pending, thrown, undefined, HexPrefix}
              /\ currentBytecode' = rawReply' /\ depth' = 0)
       /\ (detectCalls' # detectCalls \/ storageReads' # storageReads \/ depth' # depth)
          => (anPc = "resolving" \/ anPc' = "resolving")
       /\ (cache' # cache \/ comparisons' # comparisons \/ last' # last)
          => (anPc = "resolving" /\ resPc = "done" /\ anPc' = "idle")
       /\ (anPc = "resolving" /\ anPc' = "idle" /\ resPc = "done")
          => LET r == responses'[Len(responses')]
                 final == codeAt(chain, currentAddress)
                 fingerprint == BytesOf(normalizedTexts[final])
             IN  /\ Len(responses') = Len(responses) + 1
                 /\ r.status = "success"
                 /\ currentBytecode = final
                 /\ r.normalized = normalizedTexts[final]
                 /\ IF r.cached
                    THEN /\ comparisons' = comparisons
                         /\ Keys(cache') = Keys(cache)
                         /\ Len(cache') = Len(cache)
                         /\ fingerprint \in Keys(cache)
                    ELSE /\ comparisons' = comparisons + 1
                         /\ r.data.similarity_score = bestMatches[final].similarity_score
                         /\ r.data.match_name = bestMatches[final].legend_name
                         /\ cacheEnabled
                            => /\ fingerprint \notin Keys(cache)
                               /\ fingerprint \in Keys(cache')
                               /\ cache'[mapIndex(cache', fingerprint)].result = r.data]_vars

\* a proxy was analysed and its logic cached, then the logic itself was
\* asked for and answered from the cache: one comparison for two analyses
C24_Witness ==
    /\ Len(responses) = 2
    /\ responses[1].status = "success" /\ responses[1].data.is_proxy /\ ~responses[1].cached
    /\ responses[2].status = "success" /\ ~responses[2].data.is_proxy /\ responses[2].cached
    /\ comparisons = 1
    /\ Len(cache) = 1
    /\ cache[1].key = BytesOf(normalizedTexts[LogicCode])

(***************************************************************************)
(* C25: for bytes on which the length check fails, that end in the bytes   *)
(* 00 33 and that hold a known prefix (a2 64 or a2 65), stripMetadata      *)
(* returns the bytes before the last place where either prefix stands and  *)
(* reports the number of bytes from that place to the end as removed.      *)
(***************************************************************************)
\* the 1-based places in bytes where a known prefix stands
PrefixPlaces(bytes) ==
    {k \in 1..(Len(bytes) - 1) : bytes[k] = \Ha2 /\ bytes[k + 1] \in {\H64, \H65}}

C25_FallbackStripsFromLastPrefix ==
    ( /\ normPc = "stripped"
      /\ ~(\E L \in 2..199 : TrailerOf(rawBytes, L))
      /\ Len(rawBytes) >= 2
      /\ rawBytes[Len(rawBytes) - 1] = 0 /\ rawBytes[Len(rawBytes)] = \H33
      /\ PrefixPlaces(rawBytes) # {} )
    => LET k == Max(PrefixPlaces(rawBytes))
       IN  /\ stripRes.stripped = SubSeq(rawBytes, 1, k - 1)
           /\ stripRes.bytesRemoved.n = stripRes.bytesRemoved.d * (Len(rawBytes) - k + 1)

(***************************************************************************)
(* C27: for every non-empty input the statistics of normalizeBytecode      *)
(* account for every byte: metadata_stripped is a whole number of bytes,   *)
(* normalized_size + metadata_stripped = original_size, and                *)
(* normalized_size <= original_size.                                       *)
(***************************************************************************)
C27_SizesAddUp ==
    (normPc = "normalized" /\ rawBytes # <<>>)
    => /\ norm1.original_size = Len(rawBytes)
       /\ norm1.metadata_stripped.n % norm1.metadata_stripped.d = 0
       /\ norm1.normalized_size * norm1.metadata_stripped.d + norm1.metadata_stripped.n
              = norm1.original_size * norm1.metadata_stripped.d
       /\ norm1.normalized_size <= norm1.original_size

(***************************************************************************)
(* C26: detectEIP1167, in either revision, returns the 20 bytes behind the *)
(* prologue for a text that starts with the prologue, 20 address bytes and *)
(* the epilogue, in any hex case and with or without "0x"; for a text that *)
(* is no standard clone it returns the 20 bytes behind the first           *)
(* occurrence of the clone-factory pattern, wherever that stands; the      *)
(* standard clone goes first when both apply; and it returns null when     *)
(* the text is no standard clone and the clone-factory pattern does not    *)
(* occur.  A standard clone is taken in the wider sense the code gives it: *)
(* prologue and address with the epilogue behind them or with a total      *)
(* length of 45 bytes.                                                     *)
(***************************************************************************)
\* the text in lower case
LowerText == toLowerCase(bytecodeText)

\* prologue, 20 address bytes, epilogue
CompleteClone ==
    /\ occursAt(LowerText, EIP1167_PREFIX, 0)
    /\ occursAt(LowerText, EIP1167_SUFFIX, Len(EIP1167_PREFIX) + 40)

\* the same, or prologue and address in a text of 45 bytes
WiderClone ==
    \/ CompleteClone
    \/ /\ occursAt(LowerText, EIP1167_PREFIX, 0)
       /\ Len(LowerText) = 90

\* the places where the clone-factory pattern stands with 20 bytes behind it
FactoryPlaces ==
    {i \in 0..(Len(LowerText) - Len(ALT_CLONE_PATTERN) - 40) :
        occursAt(LowerText, ALT_CLONE_PATTERN, i)}

\* whether address is the address written in the text from index start on
IsAddressAt(address, start) ==
    /\ address # null
    /\ toLowerCase(address) = HexPrefix \o SubSeq(LowerText, start + 1, start + 40)

C26_DetectsClones ==
    detPc = "detected" =>
        \A m \in {"cache.ts", "proxy.ts"} :
            /\ CompleteClone => IsAddressAt(detected[m], Len(EIP1167_PREFIX))
            /\ (~WiderClone /\ FactoryPlaces # {})
               => IsAddressAt(detected[m], Min(FactoryPlaces) + Len(ALT_CLONE_PATTERN))
            /\ (~WiderClone /\ indexOf(LowerText, ALT_CLONE_PATTERN) = -1)
               => detected[m] = null

(***************************************************************************)
(* C28: an enabled set on a key that is present replaces the entry of that *)
(* key and nothing else: every other entry stays as it is, no key goes     *)
(* and the number of entries is the same, also when the cache is full.     *)
(***************************************************************************)
C28_SetOnPresentKeyReplacesOnly ==
    [][\A nb \in CacheInputs, r \in Results :
          ( /\ enabled
            /\ last'.op = "set"
            /\ last'.key = generateKey(nb)
            /\ mapHas(cache, generateKey(nb))
            /\ Set(nb, r) )
          => /\ Len(cache') = Len(cache)
             /\ Keys(cache') = Keys(cache)
             /\ \A i \in 1..Len(cache) :
                    cache[i].key # generateKey(nb) => cache[i] \in {cache'[j] : j \in 1..Len(cache')}
             /\ cache'[mapIndex(cache', generateKey(nb))].result = r]_vars

(***************************************************************************)
(* C29: whenever resolveImplementation returns is_proxy = true with        *)
(* implementation_address X, the bytecode it returns is the code the node  *)
(* holds at X and not the code of the proxy the call began with or passed  *)
(* through.                                                                *)
(***************************************************************************)
C29_ProxyResultIsImplementationCode ==
    (resPc = "done" /\ resolution.is_proxy)
    => /\ resolution.implementation_address # null
       /\ resolution.bytecode = codeAt(chain, resolution.implementation_address)

(***************************************************************************)
(* C30: in every result of resolveImplementation is_proxy is true exactly  *)
(* when resolution_depth is at least 1, proxy_type is 'none' exactly when  *)
(* implementation_address is null, and with resolution_depth 0 the         *)
(* bytecode returned is the bytecode the call was given.                   *)
(***************************************************************************)
C30_ResultFieldsAgree ==
    resPc = "done"
    => /\ resolution.is_proxy <=> resolution.resolution_depth >= 1
       /\ resolution.proxy_type = "none" <=> resolution.implementation_address = null
       /\ resolution.proxy_type \in {"eip1167", "eip1967", "none"}
       /\ resolution.resolution_depth = 0
          => resolution.bytecode = codeAt(chain, HexPrefix \o StartAddress)

\* a clone of a slot proxy was resolved over two hops
C30_Witness ==
    /\ resPc = "done"
    /\ resolution.resolution_depth = 2
    /\ resolution.is_proxy
    /\ resolution.proxy_type = "eip1967"
    /\ hopsFetched = 2
    /\ failure = "none"

====
